---- MODULE Spec2Model ----
(***************************************************************************)
(* Aperture front end: the lexer (interpreter/ape_lexer/src/lib.rs) and    *)
(* the recursive-descent parser (src/parser.rs).                           *)
(*                                                                         *)
(* Characters are one-character strings, source text and lexemes are       *)
(* sequences of characters.  Offsets (start, crnt) are 0-based as in the   *)
(* Rust code; the character at offset n is source[n + 1].  Source text is  *)
(* ASCII, so byte offsets (slices) and char offsets (chars().nth) agree.   *)
(***************************************************************************)
EXTENDS Integers, Sequences, FiniteSets, TLC

VARIABLES lexer, lexpc, parser, parsepc, stmts, input

vars == <<lexer, lexpc, parser, parsepc, stmts, input>>

(***************************************************************************)
(* Bounds of the model.                                                    *)
(***************************************************************************)
\* every source text over Alphabet up to this length is lexed
MaxLen == 3

(***************************************************************************)
(* Characters.                                                             *)
(***************************************************************************)
\* '\0', what advance/peek/first return past the end of the source
NUL == "NUL"
DQ == "\""
SQ == "'"
NL == "\n"

Digits == {"0", "1", "2", "3", "4", "5", "6", "7", "8", "9"}
LowerLetters == {"a", "b", "c", "d", "e", "f", "g", "h", "i", "j", "k", "l", "m",
                 "n", "o", "p", "q", "r", "s", "t", "u", "v", "w", "x", "y", "z"}
UpperLetters == {"A", "B", "C", "D", "E", "F", "G", "H", "I", "J", "K", "L", "M",
                 "N", "O", "P", "Q", "R", "S", "T", "U", "V", "W", "X", "Y", "Z"}
Letters == LowerLetters \cup UpperLetters

is_ascii_digit(c) == c \in Digits
is_alphabetic(c) == c \in Letters
is_alphanumeric(c) == c \in Letters \cup Digits

\* char::is_digit(radix)
is_digit(c, radix) ==
    CASE radix = 2 -> c \in {"0", "1"}
      [] radix = 8 -> c \in {"0", "1", "2", "3", "4", "5", "6", "7"}
      [] radix = 10 -> c \in Digits
      [] OTHER -> c \in Digits \cup {"a", "b", "c", "d", "e", "f"}
                         \cup {"A", "B", "C", "D", "E", "F"}

DigitValue(c) ==
    CASE c = "0" -> 0 [] c = "1" -> 1 [] c = "2" -> 2 [] c = "3" -> 3
      [] c = "4" -> 4 [] c = "5" -> 5 [] c = "6" -> 6 [] c = "7" -> 7
      [] c = "8" -> 8 [] OTHER -> 9

(***************************************************************************)
(* Literal values (LiteralKind) and tokens.  Every value has the same      *)
(* record shape; kind "None" is Option::None.                              *)
(***************************************************************************)
NoValue == [kind |-> "None", base |-> "None", num |-> 0, text |-> <<>>]
NumberValue(b, n) == [kind |-> "Number", base |-> b, num |-> n, text |-> <<>>]
StringValue(s) == [kind |-> "String", base |-> "None", num |-> 0, text |-> s]
CharValue(c) == [kind |-> "Char", base |-> "None", num |-> 0, text |-> <<c>>]

\* kwds(): the keyword / type-identifier table, as (spelling, token kind) pairs
kwds ==
    { <<<<"i", "f">>, "If">>,
      <<<<"e", "l", "s", "e">>, "Else">>,
      <<<<"e", "l", "s", "e", " ", "i", "f">>, "ElseIf">>,
      <<<<"r", "e", "t", "u", "r", "n">>, "Return">>,
      <<<<"w", "h", "i", "l", "e">>, "While">>,
      <<<<"l", "o", "o", "p">>, "Loop">>,
      <<<<"b", "r", "e", "a", "k">>, "Break">>,
      <<<<"m", "a", "t", "c", "h">>, "Match">>,
      <<<<"m", "o", "d">>, "Mod">>,
      <<<<"u", "s", "e">>, "Use">>,
      <<<<"a", "s">>, "As">>,
      <<<<"f", "r", "o", "m">>, "From">>,
      <<<<"s", "t", "r", "u", "c", "t">>, "Struct">>,
      <<<<"i", "m", "p", "l">>, "Impl">>,
      <<<<"e", "n", "u", "m">>, "Enum">>,
      <<<<"a", "s", "y", "n", "c">>, "Async">>,
      <<<<"a", "w", "a", "i", "t">>, "Await">>,
      <<<<"p", "u", "b">>, "Pub">>,
      <<<<"m", "u", "t">>, "Mut">>,
      <<<<"f", "u", "n", "c">>, "Func">>,
      <<<<"n", "u", "m", "b", "e", "r">>, "NumberIdent">>,
      <<<<"s", "t", "r", "i", "n", "g">>, "StringIdent">>,
      <<<<"c", "h", "a", "r">>, "CharIdent">>,
      <<<<"b", "o", "o", "l">>, "BoolIdent">>,
      <<<<"n", "u", "l", "l">>, "NullIdent">>,
      <<<<"v", "o", "i", "d">>, "VoidIdent">>,
      <<<<"a", "r", "r", "a", "y">>, "ArrayIdent">>,
      <<<<"a", "n", "y">>, "AnyIdent">> }

\* self.kwds.get(sub).unwrap_or(&Ident)
kwds_get(sub) ==
    IF \E e \in kwds : e[1] = sub
    THEN (CHOOSE e \in kwds : e[1] = sub)[2]
    ELSE "Ident"

(***************************************************************************)
(* Lexer: cursor helpers.  They read the source of the current lexer.      *)
(***************************************************************************)
Src == lexer.source

\* Lexer::is_eof at offset c
is_eof(c) == c >= Len(Src)

\* the character Lexer::advance returns at offset c (the caller adds 1 to crnt)
advance_char(c) == IF c < Len(Src) THEN Src[c + 1] ELSE NUL

\* Lexer::peek at offset c
lex_peek(c) == IF is_eof(c) THEN NUL ELSE Src[c + 1]

\* Lexer::first: the first character of the WHOLE source, whatever crnt is
first == IF Len(Src) = 0 THEN NUL ELSE Src[1]

\* the slice source[a..b]; Rust panics when b is past the end
SliceOk(a, b) == a <= b /\ b <= Len(Src)
Slice(a, b) == SubSeq(Src, a + 1, b)

(***************************************************************************)
(* The outcome of one advance_token call: the token vector, the line, the  *)
(* cursor, and whether a slice went out of range (panic).                  *)
(***************************************************************************)
Outcome(toks, ln, c, p) == [tokens |-> toks, line |-> ln, crnt |-> c, panic |-> p]

\* lex() sets self.start = self.crnt before every advance_token call
TokStart == lexer.crnt

\* Lexer::push_token with cursor c and line ln
push_token(tt, value, c, ln) ==
    IF ~SliceOk(TokStart, c)
    THEN Outcome(lexer.tokens, ln, c, TRUE)
    ELSE Outcome(Append(lexer.tokens,
                        [token |-> tt,
                         lexeme |-> Slice(TokStart, c),
                         line |-> ln,
                         value |-> value,
                         len |-> Len(Slice(TokStart, c))]),
                 ln, c, FALSE)

\* no token pushed
no_token(c, ln) == Outcome(lexer.tokens, ln, c, FALSE)

(***************************************************************************)
(* str::parse::<f32> on a slice.  The slices the number scanners build     *)
(* hold only digits of the radix, so the accepted shapes are a digit run   *)
(* and a digit run with a decimal exponent (hexadecimal digit e or E).     *)
(* Values are exact naturals (exact in f32 below 2^24).                    *)
(***************************************************************************)
RECURSIVE DecimalValue(_)
DecimalValue(ds) ==
    IF Len(ds) = 0 THEN 0
    ELSE 10 * DecimalValue(SubSeq(ds, 1, Len(ds) - 1)) + DigitValue(ds[Len(ds)])

RECURSIVE Pow10(_)
Pow10(n) == IF n = 0 THEN 1 ELSE 10 * Pow10(n - 1)

AllDigits(ds) == \A i \in 1..Len(ds) : ds[i] \in Digits

ParseF32(sub) ==
    IF Len(sub) > 0 /\ AllDigits(sub)
    THEN [ok |-> TRUE, value |-> DecimalValue(sub)]
    ELSE IF \E i \in 2..(Len(sub) - 1) :
                /\ sub[i] \in {"e", "E"}
                /\ AllDigits(SubSeq(sub, 1, i - 1))
                /\ AllDigits(SubSeq(sub, i + 1, Len(sub)))
         THEN LET i == CHOOSE i \in 2..(Len(sub) - 1) : sub[i] \in {"e", "E"}
              IN [ok |-> TRUE,
                  value |-> DecimalValue(SubSeq(sub, 1, i - 1))
                            * Pow10(DecimalValue(SubSeq(sub, i + 1, Len(sub))))]
         ELSE [ok |-> FALSE, value |-> 0]

(***************************************************************************)
(* Lexer: the scanners.  Each takes the cursor after the first character   *)
(* of the token (c = TokStart + 1) and returns the Outcome.                *)
(***************************************************************************)
\* Lexer::comment: up to, not including, the newline
RECURSIVE comment_end(_)
comment_end(c) ==
    IF lex_peek(c) = NL \/ is_eof(c) THEN c ELSE comment_end(c + 1)

comment(c) == no_token(comment_end(c), lexer.line)

\* Lexer::block_comment
RECURSIVE block_comment_end(_)
block_comment_end(c) ==
    IF lex_peek(c) = "*" \/ is_eof(c)
    THEN IF lex_peek(c + 1) = "/" \/ is_eof(c + 1)
         THEN c + 1
         ELSE block_comment_end(c + 2)
    ELSE block_comment_end(c + 1)

block_comment(c) == no_token(block_comment_end(c), lexer.line)

\* Lexer::char
char(c) ==
    IF lex_peek(c) # SQ /\ ~is_eof(c)
    THEN IF lex_peek(c + 1) # SQ
         THEN no_token(c + 1, lexer.line)
         ELSE push_token("CharLit", CharValue(lex_peek(c)), c + 2, lexer.line)
    ELSE no_token(c, lexer.line)

\* string_scan that does not count embedded newlines
RECURSIVE string_scan_nocount(_, _)
string_scan_nocount(c, ln) ==
    IF lex_peek(c) # DQ /\ ~is_eof(c)
    THEN string_scan_nocount(c + 1, ln)
    ELSE [crnt |-> c, line |-> ln]

\* Lexer::string: the while loop, returning the cursor and the line
RECURSIVE string_scan(_, _)
string_scan(c, ln) ==
    IF lex_peek(c) # DQ /\ ~is_eof(c)
    THEN string_scan(c + 1, IF lex_peek(c) = NL THEN ln + 1 ELSE ln)
    ELSE [crnt |-> c, line |-> ln]

\* string whose value slice starts at the opening quote
string_keeps_quote(c) ==
    LET sc == string_scan(c, lexer.line)
        end == sc.crnt + 1
    IN IF ~SliceOk(TokStart, end - 1)
       THEN Outcome(lexer.tokens, sc.line, end, TRUE)
       ELSE push_token("StringLit", StringValue(Slice(TokStart, end - 1)),
                       end, sc.line)

\* Lexer::string: the advance after the loop is unconditional, so at end of
\* input crnt ends one past the source and the slices are taken from there
string(c) ==
    LET sc == string_scan(c, lexer.line)
        end == sc.crnt + 1
    IN IF ~SliceOk(TokStart + 1, end - 1)
       THEN Outcome(lexer.tokens, sc.line, end, TRUE)
       ELSE push_token("StringLit", StringValue(Slice(TokStart + 1, end - 1)),
                       end, sc.line)

\* Lexer::ident
RECURSIVE ident_end(_)
ident_end(c) ==
    IF is_alphanumeric(lex_peek(c)) \/ lex_peek(c) = "_"
    THEN ident_end(c + 1)
    ELSE c

\* ident that looks the keyword table up on every prefix of the run
RECURSIVE ident_prefix_end(_)
ident_prefix_end(c) ==
    IF kwds_get(Slice(TokStart, c)) # "Ident" THEN c
    ELSE IF is_alphanumeric(lex_peek(c)) \/ lex_peek(c) = "_"
    THEN ident_prefix_end(c + 1)
    ELSE c

ident_prefix(c) ==
    push_token(kwds_get(Slice(TokStart, ident_prefix_end(c))), NoValue,
               ident_prefix_end(c), lexer.line)

ident(c) ==
    push_token(kwds_get(Slice(TokStart, ident_end(c))), NoValue, ident_end(c), lexer.line)

\* while self.peek().is_digit(radix) { self.advance(); }
RECURSIVE digits_end(_, _)
digits_end(c, radix) ==
    IF is_digit(lex_peek(c), radix) THEN digits_end(c + 1, radix) ELSE c

\* the tail shared by parse_decimal / parse_binary / parse_octal /
\* parse_hexadecimal: parse the slice as f32, push NumberIdent on success
push_number(base, c) ==
    LET val == ParseF32(Slice(TokStart, c))
    IN IF val.ok
       THEN push_token("NumberIdent", NumberValue(base, val.value), c, lexer.line)
       ELSE no_token(c, lexer.line)

\* Lexer::parse_decimal: the second digit loop starts where the first one
\* stopped, so it never runs (a '.' is never consumed)
parse_decimal(c) ==
    LET c1 == digits_end(c, 10)
        c2 == IF is_digit(lex_peek(c1), 10) THEN digits_end(c1 + 1, 10) ELSE c1
    IN push_number("Decimal", c2)

parse_binary(c) == push_number("Binary", digits_end(c, 2))

parse_octal(c) == push_number("Octal", digits_end(c, 8))

parse_hexadecimal(c) == push_number("Hexadecimal", digits_end(c, 16))

\* Lexer::number, ch the digit just consumed
number(ch, c) ==
    IF ch = "0"
    THEN CASE first = "b" -> parse_binary(c)
           [] first = "o" -> parse_octal(c)
           [] first = "x" -> parse_hexadecimal(c)
           [] first \in Digits \cup {"_", "."} -> parse_decimal(c)
           [] OTHER -> push_token("NumberLit", NumberValue("Decimal", 0), c, lexer.line)
    ELSE parse_decimal(c)

\* the operator arms of advance_token: the token kind chosen from first()
operator_kind(ch) ==
    CASE ch = "!" -> (CASE first = "!" -> "NotNot" [] first = "=" -> "NotEq" [] OTHER -> "Not")
      [] ch = "&" -> (IF first = "&" THEN "AndAnd" ELSE "And")
      [] ch = "+" -> (CASE first = "+" -> "Increment" [] first = "=" -> "PlusEq"
                        [] OTHER -> "Plus")
      [] ch = "-" -> (CASE first = ">" -> "Arrow" [] first = "-" -> "Decr"
                        [] first = "=" -> "MinEq" [] OTHER -> "Minus")
      [] ch = "*" -> (CASE first = "*" -> "Square" [] first = "=" -> "MultEq"
                        [] OTHER -> "Mult")
      [] ch = "=" -> (IF first = "=" THEN "Eq" ELSE "Assign")
      [] ch = "|" -> (IF first = "|" THEN "Or" ELSE "Pipe")
      [] ch = "." -> (IF first = "." THEN "DotDot" ELSE "Dot")
      [] ch = "<" -> (IF first = "=" THEN "LessOrEq" ELSE "Less")
      [] ch = ">" -> (IF first = "=" THEN "GreaterOrEq" ELSE "Greater")
      [] OTHER -> (CASE first = "{" -> "StartParse" [] first = "}" -> "EndParse"
                     [] OTHER -> "Escape")

\* the single-character arms of advance_token
punct_kind(ch) ==
    CASE ch = "~" -> "Tilde"
      [] ch = "%" -> "Percent"
      [] ch = "(" -> "LeftParen"
      [] ch = ")" -> "RightParen"
      [] ch = "{" -> "LeftBrace"
      [] ch = "}" -> "RightBrace"
      [] ch = "[" -> "LeftBracket"
      [] ch = "]" -> "RightBracket"
      [] ch = ";" -> "Semi"
      [] ch = ":" -> "Colon"
      [] ch = "," -> "Colon"
      [] OTHER -> "Queston"

PunctChars == {"~", "%", "(", ")", "{", "}", "[", "]", ";", ":", ",", "?"}
OperatorChars == {"!", "&", "+", "-", "*", "=", "|", ".", "<", ">", "\\"}

\* Lexer::advance_token: ch is the character advance() returned, c the
\* cursor after it
advance_token(ch, c) ==
    CASE ch \in PunctChars -> push_token(punct_kind(ch), NoValue, c, lexer.line)
      [] ch \in OperatorChars -> push_token(operator_kind(ch), NoValue, c, lexer.line)
      [] ch = "/" ->
            (IF first = "/" THEN comment(c)
             ELSE IF first = "*" THEN block_comment(c)
             ELSE push_token(IF first = "=" THEN "DivEq" ELSE "Divide",
                             NoValue, c, lexer.line))
      [] ch \in {" ", "\t", "\r"} -> no_token(c, lexer.line)
      [] ch = NL -> no_token(c, lexer.line + 1)
      [] ch = SQ -> char(c)
      [] ch = DQ -> string(c)
      [] is_ascii_digit(ch) -> number(ch, c)
      [] is_alphabetic(ch) \/ ch = "_" -> ident(c)
      [] OTHER -> no_token(c, lexer.line)

\* the end-of-input token lex() pushes
EofToken(ln) ==
    [token |-> "Eof", lexeme |-> <<NUL>>, line |-> ln, value |-> NoValue, len |-> 0]

(***************************************************************************)
(* Lexer: source texts.                                                    *)
(***************************************************************************)
Alphabet == {DQ, NL, SQ, "a", "b", "0", "1", "-", "=", "/", "*", ".", ";", " "}

\* sources of the repository's lexer tests and the literals they are about
ExtraSources ==
    { <<DQ, "h", "i", DQ>>, <<DQ, "3", " ", "2", DQ>>, <<DQ, "h", NL, "i", DQ>>,
      <<DQ, NL, "a", NL, NL, DQ>>, <<"a", NL, DQ, "b", NL, DQ>>,
      <<"0", "b", "1", "1">>, <<"0", "b", "0", "1", "0", "1">>,
      <<"0", "b", "1", "1", "1">>, <<"0", "o", "1", "7">>, <<"0", "x", "1", "f">>,
      <<"b", " ", "0", "1", "1">>, <<"o", " ", "0", "1", "7">>,
      <<"x", " ", "0", "1", "f">>, <<"x", " ", "0", "e", "1">>,
      <<"-", "-">>, <<">", "=">>, <<".", ".">>, <<"&", "&">>, <<"|", "|">>,
      <<"=", "=">>, <<"!", "=">>, <<"+", "=">>, <<"-", "=">>, <<"*", "=">>,
      <<"/", "=">>, <<"-", ">">>, <<"=", ">">>, <<":", ":">>,
      <<"#", "a">>, <<"~", ",", "?">> }

\* the words of the keyword table, and the two keywords the token type has
\* kinds for (Let, Slf) that the table leaves out
KeywordSources ==
    {e[1] : e \in kwds} \cup {<<"l", "e", "t">>, <<"s", "e", "l", "f">>}

\* identifier-shaped words that start with, end in or contain a keyword
IdentifierSources ==
    { <<"i", "f", "f", "y">>, <<"m", "o", "d", "x">>, <<"u", "s", "e", "_", "i", "t">>,
      <<"s", "t", "r", "i", "n", "g", "1">>, <<"_", "i", "f">>, <<"i", "f", "_">>,
      <<"a", "s", "1">>, <<"x", "a", "s">>, <<"t", "r", "u", "e">>, <<"_">>,
      <<"i", "f", " ", "i", "f", "f", "y", ";", "a", "s">>, <<"1", "i", "f">> }

\* every single-character punctuation alone
PunctSources == {<<ch>> : ch \in PunctChars}

\* block comments: empty, with a body, with stars in the body, before the
\* closing pair, left open, not at the start of the source, with a newline
CommentSources ==
    { <<"/", "*", "*", "/", "a">>, <<"/", "*", "a", "*", "/", "b">>,
      <<"/", "*", "*", "*", "/", "a">>, <<"/", "*", "a", "*", "b", "*", "*", "/", "b">>,
      <<"/", "*", "a">>, <<"a", " ", "/", "*", "b", "*", "/", "a">>,
      <<" ", "/", "*", "a", "*", "/", "b">>, <<"*", "/", "*", "a", "*", "/", "b">>,
      <<"*", "/", "*", "a", "*", "*", "/", "b">>, <<"/", "*", "a", "*", "/", NL, "b">>,
      <<"*", "/", "*", NL, "*", "/">>, <<"/", "*", NL, "*", "/", "b">> }

\* decimal literals: digit runs, with a fraction, with a second point
DecimalSources ==
    { <<"7">>, <<"1", "2">>, <<"1", ".", "5">>, <<"1", "2", ".", "3", "4">>,
      <<"3", ".", "1", "4">>, <<"1", ".", "2", ".", "3">>, <<"0", ".", "5">>,
      <<"a", " ", "1", ".", "5">>, <<"a", " ", "4", "2">> }

Texts(n) == UNION {[1..k -> Alphabet] : k \in 0..n}

Sources ==
    Texts(MaxLen) \cup ExtraSources \cup KeywordSources \cup IdentifierSources
    \cup PunctSources \cup CommentSources \cup DecimalSources

(***************************************************************************)
(* Parser state while the lexer runs, and lexer state while the parser     *)
(* runs.                                                                   *)
(***************************************************************************)
IdleParser == [tokens |-> <<>>, err |-> <<>>, crnt |-> 0, id |-> 0]
IdleLexer == [source |-> <<>>, tokens |-> <<>>, line |-> 1, start |-> 0, crnt |-> 0]

(***************************************************************************)
(* Lexer: Lexer::new and the two steps of Lexer::lex.                      *)
(***************************************************************************)
LexInit ==
    /\ \E src \in Sources :
          lexer = [source |-> src, tokens |-> <<>>, line |-> 1, start |-> 0, crnt |-> 0]
    /\ lexpc = "scan"
    /\ parser = IdleParser
    /\ parsepc = "idle"
    /\ stmts = <<>>
    /\ input = [kind |-> "text"]

\* one iteration of the while loop: start = crnt; advance_token()
LexStep ==
    /\ lexpc = "scan"
    /\ ~is_eof(lexer.crnt)
    /\ LET out == advance_token(advance_char(lexer.crnt), lexer.crnt + 1)
       IN /\ lexer' = [lexer EXCEPT !.tokens = out.tokens, !.line = out.line,
                                    !.start = lexer.crnt, !.crnt = out.crnt]
          /\ lexpc' = IF out.panic THEN "panic" ELSE "scan"
    /\ UNCHANGED <<parser, parsepc, stmts, input>>

\* the loop exit: push the end-of-input token and return the tokens
LexEof ==
    /\ lexpc = "scan"
    /\ is_eof(lexer.crnt)
    /\ lexer' = [lexer EXCEPT !.tokens = Append(lexer.tokens, EofToken(lexer.line))]
    /\ lexpc' = "done"
    /\ UNCHANGED <<parser, parsepc, stmts, input>>

LexNext == LexStep \/ LexEof

LexSpec == LexInit /\ [][LexNext]_vars

(***************************************************************************)
(* Parser (src/parser.rs).  Tokens are records token / lexeme / value /    *)
(* line; the column span pos is copied around by the parser and never      *)
(* read, and is left out.  The AST is built from records tagged stmt or    *)
(* node.                                                                   *)
(*                                                                         *)
(* One statement is parsed by operators that mirror the methods of Parser. *)
(* Each takes the parser state p: the fields crnt, id and err of the       *)
(* struct, plus status.  status is "ok" while the method chain runs,        *)
(* "exit" after process::exit(1), "panic" after an index out of range,     *)
(* "diverged" when a loop or a recursion is entered that never ends.       *)
(* Once status is not "ok" every operation leaves the state alone, so the  *)
(* first failure is what the statement reports.  Methods return R(p, v):   *)
(* the state after the call and the value returned.                        *)
(***************************************************************************)
Toks == parser.tokens

R(p, v) == [p |-> p, v |-> v]

\* the element of a one-element set: The({ e : x \in {v} }) is e with v for x
The(S) == CHOOSE elem \in S : TRUE

Running(p) == p.status = "ok"

\* what a method returns once the parse has stopped
Junk == [node |-> "Junk", stmt |-> "Junk", token |-> "Junk", lexeme |-> <<NUL>>,
         value |-> NoValue, line |-> 0]

\* the state a loop goes round with, when the iteration that started at p
\* ended at q.  What a method does next is decided by tokens and crnt alone,
\* so an iteration that consumed no token is repeated for ever.
again(p, q) ==
    IF Running(q) /\ q.crnt = p.crnt THEN [q EXCEPT !.status = "diverged"] ELSE q

\* Parser::peek
peek(p) == IF p.crnt < Len(Toks) THEN Toks[p.crnt + 1] ELSE Junk

\* Parser::check
check(p, token) == peek(p).token = token

\* Parser::is_token
is_token(p, token) == ~check(p, "Eof") /\ check(p, token)

\* Parser::are_tokens
are_tokens(p, tokens) == \E token \in tokens : is_token(p, token)

\* Parser::is_literal
is_literal(p) ==
    are_tokens(p, {"NumberLit", "StringLit", "CharLit", "TrueLit", "FalseLit", "NullLit"})

\* Parser::prev
prev(p, back) ==
    IF p.crnt < back
    THEN [token |-> "Eof", lexeme |-> <<NUL>>, value |-> NoValue, line |-> 0]
    ELSE Toks[p.crnt - back + 1]

\* Parser::advance.  is_token(Eof) is never true, so crnt is incremented at
\* the end-of-input token too; crnt is then past the token vector and the
\* next peek indexes out of range.  Every caller peeks before it does
\* anything else (stmt: expr_stmt .. primary; impl_stmt: func_stmt), so the
\* panic is recorded with the increment.
advance(p) ==
    IF ~Running(p) THEN p
    ELSE LET q == IF ~is_token(p, "Eof") THEN [p EXCEPT !.crnt = @ + 1] ELSE p
         IN IF q.crnt >= Len(Toks) THEN [q EXCEPT !.status = "panic"] ELSE q

\* Error::throw: one diagnostic (code, line, lexeme of the lookahead) handed
\* to the sink; control returns to the caller
throw(p, code) ==
    IF ~Running(p) THEN p
    ELSE [p EXCEPT !.err = Append(@, [code |-> code, line |-> peek(p).line,
                                      crnt |-> p.crnt])]

\* process::exit(1)
exit(p) == IF ~Running(p) THEN p ELSE [p EXCEPT !.status = "exit"]

\* Parser::id
id(p) == IF ~Running(p) THEN R(p, p.id) ELSE R([p EXCEPT !.id = @ + 1], p.id)

\* Parser::if_token_advance
if_token_advance(p, token) ==
    IF Running(p) /\ is_token(p, token) THEN R(advance(p), TRUE) ELSE R(p, FALSE)

\* Parser::consume
consume(p, t) ==
    IF ~Running(p) THEN R(p, Junk)
    ELSE IF if_token_advance(p, t).v
         THEN R(if_token_advance(p, t).p, prev(if_token_advance(p, t).p, 1))
         ELSE R(throw(p, "E0x204"), prev(p, 1))

\* Parser::if_token_consume
if_token_consume(p, token) ==
    IF Running(p) /\ is_token(p, token) THEN R(consume(p, token).p, TRUE) ELSE R(p, FALSE)

\* Parser::consume_some: the first of ts, in order, that matches
RECURSIVE consume_some(_, _)
consume_some(p, ts) ==
    IF ~Running(p) THEN R(p, Junk)
    ELSE IF Len(ts) = 0 THEN R(throw(p, "E0x204"), prev(p, 1))
    ELSE IF if_token_advance(p, Head(ts)).v
         THEN R(if_token_advance(p, Head(ts)).p, prev(if_token_advance(p, Head(ts)).p, 1))
         ELSE consume_some(p, Tail(ts))

\* Parser::is_uppercase_ident
is_uppercase_ident(p) == peek(p).lexeme[1] \in UpperLetters

\* Parser::consume_uppercase_ident
consume_uppercase_ident(p) ==
    IF ~Running(p) THEN R(p, Junk)
    ELSE IF is_uppercase_ident(p)
         THEN R(consume(p, "Ident").p, peek(p))
         ELSE R(throw(p, "E0x204"), peek(p))

\* the synthesized type token of consume_type_ident (array and callback
\* types collapse to ArrayIdent)
ArrayTypeToken(typ, at) ==
    [token |-> "ArrayIdent", lexeme |-> typ.lexeme, value |-> NoValue, line |-> at.line]

BaseTypeIdents ==
    <<"AnyIdent", "BoolIdent", "CharIdent", "NullIdent", "VoidIdent", "ArrayIdent",
      "NumberIdent", "StringIdent">>

\* the separator test after an item of a list closed by closer:
\* if !self.if_token_consume(Comma) && !self.is_token(closer) { throw E0x201 }
comma_or(p, closer) ==
    LET m == if_token_consume(p, "Comma")
    IN IF ~m.v /\ ~is_token(m.p, closer) THEN throw(m.p, "E0x201") ELSE m.p

RECURSIVE consume_type_ident(_)
RECURSIVE callback_type_args(_)

\* Parser::consume_type_ident: while !if_token_consume(Pipe) { .. }
callback_type_args(p) ==
    The({ IF ~Running(p) \/ c.v THEN c.p
          ELSE callback_type_args(
                again(p, comma_or(consume_type_ident(c.p).p, "Pipe")))
          : c \in {if_token_consume(p, "Pipe")} })

\* Parser::consume_type_ident
consume_type_ident(p) ==
    IF ~Running(p) THEN R(p, Junk)
    ELSE IF if_token_consume(p, "Less").v
    THEN The({ LET gt == consume(typ.p, "Greater")
               IN R(gt.p, ArrayTypeToken(typ.v, peek(gt.p)))
               : typ \in {consume_type_ident(if_token_consume(p, "Less").p)} })
    ELSE IF if_token_consume(p, "Pipe").v
    THEN The({ The({ R(typ.p, ArrayTypeToken(typ.v, peek(typ.p)))
                     : typ \in {consume_type_ident(
                                   IF us.v THEN consume(us.p, "Pipe").p
                                   ELSE callback_type_args(us.p))} })
               : us \in {if_token_consume(if_token_consume(p, "Pipe").p,
                                          "Underscore")} })
    ELSE consume_some(p, BaseTypeIdents)

(***************************************************************************)
(* AST: LiteralType values, Option, Expression and Statement nodes.        *)
(***************************************************************************)
LitNumber(n) == [lit |-> "Number", num |-> n, text |-> <<>>]
LitString(t) == [lit |-> "String", num |-> 0, text |-> t]
LitChar(t) == [lit |-> "Char", num |-> 0, text |-> t]
LitBoolean(b) == [lit |-> "Boolean", num |-> IF b THEN 1 ELSE 0, text |-> <<>>]
LitNull == [lit |-> "Null", num |-> 0, text |-> <<>>]
LitAny == [lit |-> "Any", num |-> 0, text |-> <<>>]

Some(x) == [some |-> TRUE, v |-> x]
None == [some |-> FALSE]

ValueNode(i, value) == [node |-> "Value", id |-> i, value |-> value]
VarNode(i, name) == [node |-> "Var", id |-> i, name |-> name]
\* a Binary node whose operands are exchanged
BinaryNodeSwapped(i, left, operator, right) ==
    [node |-> "Binary", id |-> i, left |-> right, operator |-> operator, right |-> left]
BinaryNode(i, left, operator, right) ==
    [node |-> "Binary", id |-> i, left |-> left, operator |-> operator, right |-> right]
UnaryNode(i, left, operator) ==
    [node |-> "Unary", id |-> i, left |-> left, operator |-> operator]
GroupingNode(i, expression) == [node |-> "Grouping", id |-> i, expression |-> expression]
ArrayNode(i, items) == [node |-> "Array", id |-> i, items |-> items]
CallNode(i, name, args, call_type) ==
    [node |-> "Call", id |-> i, name |-> name, args |-> args, call_type |-> call_type]
FuncNode(i, name, value_type, body, params, is_async, is_pub) ==
    [node |-> "Func", id |-> i, name |-> name, value_type |-> value_type, body |-> body,
     params |-> params, is_async |-> is_async, is_pub |-> is_pub]
AwaitNode(i, e) == [node |-> "Await", id |-> i, expr |-> e]

BodyStatements(ss) == [body |-> "Statements", stmts |-> ss]
BodyExpression(e) == [body |-> "Expression", expr |-> e]

(***************************************************************************)
(* Parser: expressions.                                                    *)
(***************************************************************************)
RECURSIVE stmt(_), block_stmt(_), block_stmts(_), func_stmt(_)
RECURSIVE expr(_), binary(_), binary_loop(_, _), unary(_), call(_), call_loop(_, _)
RECURSIVE primary(_), func_call(_), func_call_args(_, _), struct_call(_), enum_call(_)
RECURSIVE arr_expr(_), arr_items(_, _), group_expr(_), func_expr(_), await_expr(_)
RECURSIVE closure_params(_, _)

BinaryOperators ==
    {"Plus", "Minus", "Mult", "Divide", "Percent", "AndAnd", "Or", "Eq", "NotEq",
     "Greater", "GreaterOrEq", "Less", "LessOrEq", "PlusEq", "MinEq", "MultEq",
     "DivEq", "Square", "And"}

UnaryOperators == {"Not", "NotNot", "Queston", "Decr", "Increment"}

\* Parser::expr
expr(p) == binary(p)

\* Parser::binary: the while loop, e the tree built so far
binary_loop(p, e) ==
    IF ~Running(p) \/ ~are_tokens(p, BinaryOperators) THEN R(p, e)
    ELSE The({ LET i == id(rhs.p)
               IN binary_loop(again(p, i.p), BinaryNode(i.v, e, prev(advance(p), 1), rhs.v))
               : rhs \in {unary(advance(p))} })

\* Parser::binary
binary(p) == The({ binary_loop(u.p, u.v) : u \in {unary(p)} })

\* Parser::unary
unary(p) ==
    IF ~Running(p) THEN R(p, Junk)
    ELSE IF are_tokens(p, UnaryOperators)
    THEN The({ LET i == id(rhs.p)
               IN R(i.p, UnaryNode(i.v, rhs.v, prev(advance(p), 1)))
               : rhs \in {unary(advance(p))} })
    ELSE call(p)

\* Parser::call: the loop after the primary
call_loop(p, e) ==
    IF ~Running(p) THEN R(p, e)
    ELSE IF if_token_consume(p, "Dot").v
    THEN The({ call_loop(again(p, c.p), c.v)
               : c \in {struct_call(if_token_consume(p, "Dot").p)} })
    ELSE IF if_token_consume(p, "DblColon").v
    THEN The({ call_loop(again(p, c.p), c.v)
               : c \in {enum_call(if_token_consume(p, "DblColon").p)} })
    ELSE IF if_token_consume(p, "LeftParen").v
    THEN The({ call_loop(again(p, c.p), c.v)
               : c \in {func_call(if_token_consume(p, "LeftParen").p)} })
    ELSE IF if_token_consume(p, "Ident").v
    THEN The({ call_loop(again(p, c.p), c.v)
               : c \in {call(if_token_consume(p, "Ident").p)} })
    ELSE R(p, e)

\* Parser::call
call(p) == The({ call_loop(e.p, e.v) : e \in {primary(p)} })

\* a Call node whose callee Var takes its id before the Call does
call_node_callee_first(p, name, args, call_type) ==
    LET j == id(p)
        i == id(j.p)
    IN R(i.p, CallNode(i.v, VarNode(j.v, name), args, call_type))

\* the Call node of struct_call / enum_call / func_call: the Call takes its
\* id first, the Var of the callee the next one
call_node(p, name, args, call_type) ==
    LET i == id(p)
        j == id(i.p)
    IN R(j.p, CallNode(i.v, VarNode(j.v, name), args, call_type))

\* Parser::struct_call
struct_call(p) ==
    The({ call_node(arg.p, prev(p, 2), <<arg.v>>, "Struct") : arg \in {expr(p)} })

\* Parser::enum_call
enum_call(p) ==
    The({ call_node(arg.p, prev(p, 2), <<arg.v>>, "Enum") : arg \in {expr(p)} })

\* Parser::func_call: while !if_token_consume(RightParen) { .. }
func_call_args(p, args) ==
    The({ IF ~Running(p) \/ c.v THEN R(c.p, args)
          ELSE The({ func_call_args(again(p, comma_or(arg.p, "RightParen")),
                                  Append(args, arg.v))
                     : arg \in {expr(c.p)} })
          : c \in {if_token_consume(p, "RightParen")} })

\* Parser::func_call
func_call(p) ==
    The({ call_node(args.p, prev(p, 2), args.v, "Func")
          : args \in {func_call_args(p, <<>>)} })

\* Parser::to_value_type, at state p (after the literal token was consumed)
to_value_type(p, token) ==
    CASE token.token = "NumberLit" ->
            IF token.value.kind = "Number" THEN R(p, LitNumber(token.value.num))
            ELSE R(exit(throw(p, "E0x202")), LitAny)
      [] token.token = "StringLit" ->
            IF token.value.kind = "String" THEN R(p, LitString(token.value.text))
            ELSE R(exit(throw(p, "E0x202")), LitAny)
      [] token.token = "CharLit" ->
            IF token.value.kind = "Char" THEN R(p, LitChar(token.value.text))
            ELSE R(exit(throw(p, "E0x202")), LitAny)
      [] token.token = "TrueLit" -> R(p, LitBoolean(TRUE))
      [] token.token = "FalseLit" -> R(p, LitBoolean(FALSE))
      [] token.token = "NullLit" -> R(p, LitNull)
      [] OTHER -> R(p, LitAny)

\* Parser::primary
primary(p) ==
    LET token == peek(p)
    IN IF ~Running(p) THEN R(p, Junk)
       ELSE CASE token.token = "Ident" ->
                    LET i == id(advance(p))
                    IN The({ IF br.v THEN arr_expr(br.p)
                             ELSE R(br.p, VarNode(i.v, prev(advance(p), 1)))
                             : br \in {if_token_consume(i.p, "LeftBracket")} })
              [] token.token = "LeftBracket" -> arr_expr(advance(p))
              [] token.token = "LeftParen" -> group_expr(p)
              [] token.token = "Pipe" -> func_expr(p)
              [] token.token = "Await" -> await_expr(p)
              [] OTHER ->
                    IF is_literal(p)
                    THEN LET i == id(advance(p))
                             v == to_value_type(i.p, token)
                         IN R(v.p, ValueNode(i.v, v.v))
                    ELSE R(exit(throw(p, "E0x201")), Junk)

\* Parser::arr_expr: while !if_token_consume(RightBracket) { .. }
arr_items(p, items) ==
    The({ IF ~Running(p) \/ c.v THEN R(c.p, items)
          ELSE The({ IF ~Running(item.p) THEN R(item.p, items)
                     ELSE IF item.v.node # "Value"
                     THEN R(exit(throw(item.p, "E0x203")), items)
                     ELSE arr_items(again(p, comma_or(item.p, "RightBracket")),
                                    Append(items, item.v.value))
                     : item \in {expr(c.p)} })
          : c \in {if_token_consume(p, "RightBracket")} })

\* Parser::arr_expr
arr_expr(p) ==
    The({ LET i == id(items.p) IN R(i.p, ArrayNode(i.v, items.v))
          : items \in {arr_items(p, <<>>)} })

\* Parser::group_expr
group_expr(p) ==
    The({ LET i == id(consume(e.p, "RightParen").p)
          IN R(i.p, GroupingNode(i.v, e.v))
          : e \in {expr(advance(p))} })

\* Parser::func_expr: while !if_token_consume(Pipe) { .. }
closure_params(p, params) ==
    The({ IF ~Running(p) \/ c.v THEN R(c.p, params)
          ELSE IF is_token(c.p, "Ident")
          THEN The({ The({ closure_params(again(p, param_type.p),
                                          Append(params, <<param_name.v, param_type.v>>))
                           : param_type \in {consume_type_ident(
                                                consume(param_name.p, "Colon").p)} })
                     : param_name \in {consume(c.p, "Ident")} })
          ELSE closure_params(again(p, comma_or(c.p, "Pipe")), params)
          : c \in {if_token_consume(p, "Pipe")} })

\* Parser::func_expr.  params is empty where add is computed, so add = 0.
func_expr(p) ==
    LET p1 == advance(p)
        value_type == prev(p1, 3)
        is_pub == prev(p1, 9).token = "Pub"
        name == prev(p1, 8)
    IN The({ The({ The({ IF colon.v
                         THEN The({ LET i == id(consume(body.p, "Semi").p)
                                    IN R(i.p, FuncNode(i.v, name, value_type,
                                                       BodyExpression(body.v), params.v,
                                                       FALSE, is_pub))
                                    : body \in {expr(colon.p)} })
                         ELSE The({ LET i == id(body.p)
                                    IN R(i.p, FuncNode(i.v, name, value_type,
                                                       BodyStatements(body.v), params.v,
                                                       FALSE, is_pub))
                                    : body \in {block_stmts(
                                                   consume(colon.p, "LeftBrace").p)} })
                         : colon \in {if_token_consume(params.p, "Colon")} })
                   : params \in {IF us.v THEN R(consume(us.p, "Pipe").p, <<>>)
                                 ELSE closure_params(us.p, <<>>)} })
             : us \in {if_token_consume(consume(p1, "Pipe").p, "Underscore")} })

\* Parser::await_expr.  The Await token is not consumed before expr() runs:
\* expr() at a cursor that is still on it goes binary, unary, call, primary
\* and back into await_expr with the same state, so the call never returns.
await_expr(p) ==
    The({ LET i == id(e.p) IN R(i.p, AwaitNode(i.v, e.v))
          : e \in {IF check(p, "Await") THEN R([p EXCEPT !.status = "diverged"], Junk)
                   ELSE expr(p)} })

(***************************************************************************)
(* Parser: statements.                                                     *)
(***************************************************************************)
ExpressionStmt(e) == [stmt |-> "Expression", expr |-> e]
BlockStmt(ss) == [stmt |-> "Block", stmts |-> ss]
VarStmt(names, value_type, value, is_mut, is_pub, pub_names, is_func) ==
    [stmt |-> "Var", names |-> names, value_type |-> value_type, value |-> value,
     is_mut |-> is_mut, is_pub |-> is_pub, pub_names |-> pub_names, is_func |-> is_func]
FuncStmt(name, value_type, body, params, is_async, is_pub, is_impl, is_mut) ==
    [stmt |-> "Func", name |-> name, value_type |-> value_type, body |-> body,
     params |-> params, is_async |-> is_async, is_pub |-> is_pub,
     is_impl |-> is_impl, is_mut |-> is_mut]
IfStmt(cond, body, else_if_branches, else_branch) ==
    [stmt |-> "If", cond |-> cond, body |-> body,
     else_if_branches |-> else_if_branches, else_branch |-> else_branch]
ReturnStmt(e) == [stmt |-> "Return", expr |-> e]
WhileStmt(cond, body) == [stmt |-> "While", cond |-> cond, body |-> body]
LoopStmt(iter, body) == [stmt |-> "Loop", iter |-> iter, body |-> body]
BreakStmt == [stmt |-> "Break"]
MatchStmt(cond, cases, def_case) ==
    [stmt |-> "Match", cond |-> cond, cases |-> cases, def_case |-> def_case]
ModStmt(src) == [stmt |-> "Mod", src |-> src]
UseStmt(src, names) == [stmt |-> "Use", src |-> src, names |-> names]
StructStmt(name, structs, is_pub) ==
    [stmt |-> "Struct", name |-> name, structs |-> structs, is_pub |-> is_pub,
     methods |-> <<>>]
\* an Impl statement whose body lists the methods in reverse
ImplStmtReversed(name, body) ==
    [stmt |-> "Impl", name |-> name,
     body |-> [k \in 1..Len(body) |-> body[Len(body) + 1 - k]]]
ImplStmt(name, body) == [stmt |-> "Impl", name |-> name, body |-> body]
EnumStmt(name, enums, is_pub) ==
    [stmt |-> "Enum", name |-> name, enums |-> enums, is_pub |-> is_pub]

RECURSIVE pub_names_loop(_, _), names_loop(_, _), func_params(_, _)
RECURSIVE else_if_loop(_, _), match_cases(_, _), use_names(_, _)
RECURSIVE struct_fields(_, _), impl_body(_, _), enum_items(_, _), block_loop(_, _)

\* Parser::var_stmt: the loop over pub(..) names
pub_names_loop(p, pub_names) ==
    IF ~Running(p) THEN R(p, pub_names)
    ELSE The({ The({ IF ~c.v \/ is_token(c.p, "RightParen")
                     THEN R(c.p, Append(pub_names, name.v))
                     ELSE pub_names_loop(again(p, c.p), Append(pub_names, name.v))
                     : c \in {if_token_consume(name.p, "Comma")} })
               : name \in {consume(p, "Ident")} })

\* Parser::var_stmt: the loop over the declared names
names_loop(p, names) ==
    IF ~Running(p) THEN [p |-> p, names |-> names, is_null |-> FALSE]
    ELSE The({ IF is_token(name.p, "Semi")
               THEN [p |-> name.p, names |-> Append(names, name.v), is_null |-> TRUE]
               ELSE IF ~is_token(name.p, "Comma") \/ is_token(name.p, "Colon")
               THEN [p |-> name.p, names |-> Append(names, name.v), is_null |-> FALSE]
               ELSE names_loop(again(p, advance(name.p)), Append(names, name.v))
               : name \in {consume(p, "Ident")} })

\* Parser::var_stmt: the modifiers before the names
var_modifiers(p) ==
    IF if_token_consume(p, "Mut").v
    THEN [p |-> if_token_consume(p, "Mut").p, is_mut |-> TRUE, is_pub |-> FALSE,
          pub_names |-> <<>>]
    ELSE IF ~if_token_consume(p, "Pub").v
    THEN [p |-> if_token_consume(p, "Pub").p, is_mut |-> FALSE, is_pub |-> FALSE,
          pub_names |-> <<>>]
    ELSE The({ IF ~l.v
               THEN [p |-> l.p, is_mut |-> FALSE, is_pub |-> TRUE, pub_names |-> <<>>]
               ELSE The({ [p |-> consume(pn.p, "RightParen").p, is_mut |-> FALSE,
                           is_pub |-> TRUE, pub_names |-> pn.v]
                          : pn \in {pub_names_loop(l.p, <<>>)} })
               : l \in {if_token_consume(if_token_consume(p, "Pub").p, "LeftParen")} })

\* Parser::var_stmt: null_var, built at state p from the names and the
\* modifiers m; the id of its value is the counter as it stands
null_var(p, names, m) ==
    VarStmt(names,
            [token |-> "NullIdent", lexeme |-> <<"n", "u", "l", "l">>,
             value |-> NoValue, line |-> names[1].line],
            Some(ValueNode(p.id, LitNull)),
            m.is_mut, m.is_pub, m.pub_names, FALSE)

\* Parser::var_stmt
var_stmt(p) ==
    The({ The({ IF ~Running(n.p) THEN R(n.p, Junk)
                ELSE IF n.is_null THEN R(advance(n.p), null_var(n.p, n.names, m))
                ELSE The({ IF ~Running(value_type.p) THEN R(value_type.p, Junk)
                           ELSE IF value_type.v.token = "NullIdent"
                           THEN R(value_type.p, null_var(n.p, n.names, m))
                           ELSE The({ The({ R(consume(value.p, "Semi").p,
                                              VarStmt(n.names, value_type.v, Some(value.v),
                                                      m.is_mut, m.is_pub, m.pub_names,
                                                      is_token(assign.p, "Pipe")))
                                            : value \in {expr(assign.p)} })
                                      : assign \in {consume(value_type.p, "Assign")} })
                           : value_type \in {consume_type_ident(consume(n.p, "Colon").p)} })
                : n \in {names_loop(m.p, <<>>)} })
          : m \in {var_modifiers(p)} })

\* Parser::func_stmt: the `pub` / `async` modifiers after the func keyword
func_modifiers(p) ==
    The({ The({ The({ The({ [p |-> b2.p, is_pub |-> b1.v \/ b2.v,
                             is_async |-> a1.v \/ a2.v]
                            : b2 \in {IF a2.v THEN if_token_consume(a2.p, "Pub")
                                      ELSE R(a2.p, FALSE)} })
                      : a2 \in {if_token_consume(a1.p, "Async")} })
                : a1 \in {IF b1.v THEN if_token_consume(b1.p, "Async")
                          ELSE R(b1.p, FALSE)} })
          : b1 \in {if_token_consume(p, "Pub")} })

\* a `mut self` receiver that does not mark the function as a method
mut_self_param_plain(acc) == [acc EXCEPT !.is_mut = TRUE]
\* Parser::func_stmt: the flags set by a `mut self` receiver
mut_self_param(acc) == [acc EXCEPT !.is_mut = TRUE, !.is_impl = TRUE]
\* Parser::func_stmt: the flag set by a `self` receiver
self_param(acc) == [acc EXCEPT !.is_impl = TRUE]

\* Parser::func_stmt: while !if_token_consume(RightParen) { .. }
func_params(p, acc) ==
    The({ IF ~Running(p) \/ c.v THEN [p |-> c.p, acc |-> acc]
          ELSE IF is_token(c.p, "Ident")
          THEN The({ The({ func_params(again(p, param_type.p),
                                       [acc EXCEPT !.params =
                                           Append(@, <<param_name.v, param_type.v>>)])
                           : param_type \in {consume_type_ident(
                                                consume(param_name.p, "Colon").p)} })
                     : param_name \in {consume(c.p, "Ident")} })
          ELSE IF if_token_consume(c.p, "Mut").v
          THEN func_params(again(p, consume(if_token_consume(c.p, "Mut").p, "Slf").p),
                           mut_self_param(acc))
          ELSE IF if_token_consume(c.p, "Slf").v
          THEN func_params(again(p, if_token_consume(c.p, "Slf").p), self_param(acc))
          ELSE func_params(again(p, comma_or(c.p, "RightParen")), acc)
          : c \in {if_token_consume(p, "RightParen")} })

\* Parser::func_stmt: the body after the return type
func_body(p, m, name, ps, value_type) ==
    The({ IF assign.v
          THEN The({ R(consume(body.p, "Semi").p,
                       FuncStmt(name, value_type, BodyStatements(<<ReturnStmt(body.v)>>),
                                ps.acc.params, m.is_async, m.is_pub,
                                ps.acc.is_impl, ps.acc.is_mut))
                     : body \in {expr(assign.p)} })
          ELSE The({ R(body.p,
                       FuncStmt(name, value_type, BodyStatements(body.v),
                                ps.acc.params, m.is_async, m.is_pub,
                                ps.acc.is_impl, ps.acc.is_mut))
                     : body \in {block_stmts(consume(assign.p, "LeftBrace").p)} })
          : assign \in {if_token_consume(p, "Assign")} })

\* Parser::func_stmt
func_stmt(p) ==
    The({ The({ The({ The({ func_body(value_type.p, m, name.v, ps, value_type.v)
                            : value_type \in {consume_type_ident(
                                                 consume(ps.p, "Arrow").p)} })
                      : ps \in {func_params(consume(name.p, "LeftParen").p,
                                            [params |-> <<>>, is_impl |-> FALSE,
                                             is_mut |-> FALSE])} })
                : name \in {consume(m.p, "Ident")} })
          : m \in {func_modifiers(p)} })

\* Parser::if_stmt: while if_token_consume(ElseIf) { .. }
else_if_loop(p, branches) ==
    The({ IF ~Running(p) \/ ~c.v THEN R(c.p, branches)
          ELSE The({ The({ else_if_loop(again(p, elif_stmt.p),
                                        Append(branches, <<elif_preds.v, elif_stmt.v>>))
                           : elif_stmt \in {block_stmts(elif_preds.p)} })
                     : elif_preds \in {expr(c.p)} })
          : c \in {if_token_consume(p, "ElseIf")} })

\* Parser::if_stmt
if_stmt(p) ==
    The({ The({ The({ The({ IF els.v
                            THEN The({ R(else_body.p,
                                         IfStmt(cond.v, body.v, branches.v,
                                                Some(else_body.v)))
                                       : else_body \in {block_stmts(els.p)} })
                            ELSE R(els.p, IfStmt(cond.v, body.v, branches.v, None))
                            : els \in {if_token_consume(branches.p, "Else")} })
                      : branches \in {else_if_loop(body.p, <<>>)} })
                : body \in {block_stmts(cond.p)} })
          : cond \in {expr(p)} })

\* Parser::return_stmt
return_stmt(p) ==
    The({ R(consume(e.p, "Semi").p, ReturnStmt(e.v))
          : e \in {IF is_token(p, "Semi")
                   THEN LET i == id(p) IN R(i.p, ValueNode(i.v, LitNull))
                   ELSE expr(p)} })

\* Parser::while_stmt
while_stmt(p) ==
    The({ The({ R(body.p, WhileStmt(cond.v, body.v))
                : body \in {block_stmts(cond.p)} })
          : cond \in {expr(p)} })

\* Parser::loop_stmt
loop_stmt(p) ==
    The({ The({ The({ R(body.p, LoopStmt(iter.v, body.v))
                      : body \in {block_stmts(iter.p)} })
                : iter \in {IF ~c.v THEN R(c.p, None)
                            ELSE The({ IF n.v.value.kind = "Number"
                                       THEN R(n.p, Some(n.v.value.num))
                                       ELSE R(exit(throw(n.p, "E0x202")), None)
                                       : n \in {consume(c.p, "NullLit")} })} })
          : c \in {if_token_consume(p, "NumberLit")} })

\* Parser::break_stmt
break_stmt(p) == R(consume(p, "Semi").p, BreakStmt)

\* Parser::match_stmt: the body of a case
case_body(p) ==
    The({ IF brace.v
          THEN The({ R(consume(body.p, "RightBrace").p, BodyStatements(body.v))
                     : body \in {block_stmts(brace.p)} })
          ELSE The({ R(consume(body.p, "Comma").p, BodyExpression(body.v))
                     : body \in {expr(brace.p)} })
          : brace \in {if_token_advance(p, "LeftBrace")} })

\* Parser::match_stmt: while is_literal() || is_uppercase_ident() { .. }
match_cases(p, cases) ==
    IF ~Running(p) \/ ~(is_literal(p) \/ is_uppercase_ident(p)) THEN R(p, cases)
    ELSE The({ The({ match_cases(again(p, body.p), Append(cases, <<e.v, body.v>>))
                     : body \in {case_body(consume(e.p, "ArrowBig").p)} })
               : e \in {expr(p)} })

\* Parser::match_stmt: the default case
def_case(p) ==
    The({ IF brace.v
          THEN The({ R(body.p, BodyStatements(body.v))
                     : body \in {block_stmts(brace.p)} })
          ELSE The({ R(consume(body.p, "Comma").p, BodyExpression(body.v))
                     : body \in {expr(brace.p)} })
          : brace \in {if_token_consume(p, "LeftBrace")} })

\* Parser::match_stmt
match_stmt(p) ==
    The({ The({ The({ R(consume(def.p, "RightBrace").p,
                        MatchStmt(cond.v, cases.v, def.v))
                      : def \in {def_case(consume(consume(cases.p, "Underscore").p,
                                                  "ArrowBig").p)} })
                : cases \in {match_cases(consume(cond.p, "LeftBrace").p, <<>>)} })
          : cond \in {expr(p)} })

\* Parser::mod_stmt
mod_stmt(p) ==
    LET src == consume(p, "StringLit")
    IN R(consume(src.p, "Semi").p, ModStmt(src.v.lexeme))

\* Parser::use_stmt: while !if_token_advance(From) { .. }
use_names(p, names) ==
    The({ IF ~Running(p) \/ c.v THEN R(c.p, names)
          ELSE The({ The({ The({ use_names(again(p, consume(item.p, "Comma").p),
                                           Append(names, item.v))
                                 : item \in {IF as.v
                                             THEN The({ R(as_name.p,
                                                          <<name.v, Some(as_name.v)>>)
                                                        : as_name \in
                                                            {consume(as.p, "Ident")} })
                                             ELSE R(as.p, <<name.v, None>>)} })
                           : as \in {if_token_consume(name.p, "As")} })
                     : name \in {consume(c.p, "Ident")} })
          : c \in {if_token_advance(p, "From")} })

\* Parser::use_stmt
use_stmt(p) ==
    The({ The({ R(consume(src.p, "Semi").p, UseStmt(src.v.lexeme, names.v))
                : src \in {consume(names.p, "StringLit")} })
          : names \in {use_names(p, <<>>)} })

\* Parser::struct_stmt: while !if_token_consume(RightBrace) { .. }
struct_fields(p, structs) ==
    The({ IF ~Running(p) \/ c.v THEN R(c.p, structs)
          ELSE The({ The({ The({ struct_fields(
                                    again(p, comma_or(struct_type.p, "RightBrace")),
                                    Append(structs, <<struct_name.v,
                                                      struct_type.v.token, b.v>>))
                                 : struct_type \in {consume_type_ident(
                                                       consume(struct_name.p,
                                                               "Colon").p)} })
                           : struct_name \in {consume(b.p, "Ident")} })
                     : b \in {if_token_consume(c.p, "Pub")} })
          : c \in {if_token_consume(p, "RightBrace")} })

\* Parser::struct_stmt
struct_stmt(p) ==
    The({ The({ The({ R(structs.p, StructStmt(name.v, structs.v, b.v))
                      : structs \in {struct_fields(consume(name.p, "LeftBrace").p, <<>>)} })
                : name \in {consume_uppercase_ident(b.p)} })
          : b \in {if_token_consume(p, "Pub")} })

\* Parser::impl_stmt: while !if_token_consume(RightBrace) && !is_token(Eof)
impl_body(p, body) ==
    The({ IF ~Running(p) \/ c.v \/ is_token(c.p, "Eof") THEN R(c.p, body)
          ELSE The({ impl_body(again(p, func.p), Append(body, func.v))
                     : func \in {func_stmt(advance(c.p))} })
          : c \in {if_token_consume(p, "RightBrace")} })

\* Parser::impl_stmt
impl_stmt(p) ==
    The({ The({ R(body.p, ImplStmt(name.v, body.v))
                : body \in {impl_body(consume(name.p, "LeftBrace").p, <<>>)} })
          : name \in {consume_uppercase_ident(p)} })

\* Parser::enum_stmt: while !if_token_consume(RightBrace) { .. }
enum_items(p, enums) ==
    The({ IF ~Running(p) \/ c.v THEN R(c.p, enums)
          ELSE The({ enum_items(again(p, comma_or(enm.p, "RightBrace")),
                              Append(enums, enm.v))
                     : enm \in {consume(c.p, "Ident")} })
          : c \in {if_token_consume(p, "RightBrace")} })

\* Parser::enum_stmt
enum_stmt(p) ==
    The({ The({ The({ R(enums.p, EnumStmt(name.v, enums.v, b.v))
                      : enums \in {enum_items(consume(name.p, "LeftBrace").p, <<>>)} })
                : name \in {consume_uppercase_ident(b.p)} })
          : b \in {if_token_consume(p, "Pub")} })

\* Parser::block_stmts
block_stmts(p) ==
    The({ IF b.v.stmt = "Block" THEN R(consume(b.p, "RightBrace").p, b.v.stmts)
          ELSE R(exit(throw(b.p, "E0x203")), <<>>)
          : b \in {block_stmt(p)} })

\* Parser::block_stmt: while !is_token(RightBrace) && !is_token(Eof) { .. }
block_loop(p, ss) ==
    IF ~Running(p) \/ is_token(p, "RightBrace") \/ is_token(p, "Eof") THEN R(p, ss)
    ELSE The({ block_loop(again(p, s.p), IF Running(s.p) THEN Append(ss, s.v) ELSE ss)
               : s \in {stmt(p)} })

\* Parser::block_stmt
block_stmt(p) == The({ R(ss.p, BlockStmt(ss.v)) : ss \in {block_loop(p, <<>>)} })

\* Parser::expr_stmt
expr_stmt(p) ==
    The({ R(consume(e.p, "Semi").p, ExpressionStmt(e.v)) : e \in {expr(p)} })

\* Parser::stmt
stmt(p0) ==
    LET p == advance(p0)
        token == prev(p, 1).token
    IN IF ~Running(p) THEN R(p, Junk)
       ELSE CASE token = "Let" -> var_stmt(p)
              [] token = "Func" -> func_stmt(p)
              [] token = "If" -> if_stmt(p)
              [] token = "Return" -> return_stmt(p)
              [] token = "While" -> while_stmt(p)
              [] token = "Loop" -> loop_stmt(p)
              [] token = "Break" -> break_stmt(p)
              [] token = "Match" -> match_stmt(p)
              [] token = "Mod" -> mod_stmt(p)
              [] token = "Use" -> use_stmt(p)
              [] token = "Struct" -> struct_stmt(p)
              [] token = "Impl" -> impl_stmt(p)
              [] token = "Enum" -> enum_stmt(p)
              [] token = "LeftBrace" -> block_stmt(p)
              [] OTHER -> expr_stmt(p)

(***************************************************************************)
(* Parser: token sequences handed to Parser::new.  input describes the     *)
(* program the tokens are laid out from.                                   *)
(***************************************************************************)
Tk(kind, lexeme) == [token |-> kind, lexeme |-> lexeme, value |-> NoValue, line |-> 1]

Spelling ==
    [Let |-> <<"l", "e", "t">>, Func |-> <<"f", "u", "n", "c">>, If |-> <<"i", "f">>,
     Else |-> <<"e", "l", "s", "e">>, ElseIf |-> <<"e", "l", "s", "e", " ", "i", "f">>,
     Return |-> <<"r", "e", "t", "u", "r", "n">>, While |-> <<"w", "h", "i", "l", "e">>,
     Loop |-> <<"l", "o", "o", "p">>, Break |-> <<"b", "r", "e", "a", "k">>,
     Match |-> <<"m", "a", "t", "c", "h">>, Mod |-> <<"m", "o", "d">>,
     Use |-> <<"u", "s", "e">>, As |-> <<"a", "s">>, From |-> <<"f", "r", "o", "m">>,
     Struct |-> <<"s", "t", "r", "u", "c", "t">>, Impl |-> <<"i", "m", "p", "l">>,
     Enum |-> <<"e", "n", "u", "m">>, Pub |-> <<"p", "u", "b">>, Mut |-> <<"m", "u", "t">>,
     Async |-> <<"a", "s", "y", "n", "c">>, Await |-> <<"a", "w", "a", "i", "t">>,
     Slf |-> <<"s", "e", "l", "f">>, NullLit |-> <<"n", "u", "l", "l">>,
     TrueLit |-> <<"t", "r", "u", "e">>, FalseLit |-> <<"f", "a", "l", "s", "e">>,
     NumberIdent |-> <<"n", "u", "m", "b", "e", "r">>, VoidIdent |-> <<"v", "o", "i", "d">>,
     NullIdent |-> <<"n", "u", "l", "l">>, AnyIdent |-> <<"a", "n", "y">>,
     LeftBrace |-> <<"{">>, RightBrace |-> <<"}">>, LeftParen |-> <<"(">>,
     RightParen |-> <<")">>, LeftBracket |-> <<"[">>, RightBracket |-> <<"]">>,
     Semi |-> <<";">>, Colon |-> <<":">>, DblColon |-> <<":", ":">>, Comma |-> <<",">>,
     Dot |-> <<".">>, Arrow |-> <<"-", ">">>, ArrowBig |-> <<"=", ">">>,
     Assign |-> <<"=">>, Pipe |-> <<"|">>, Underscore |-> <<"_">>,
     Plus |-> <<"+">>, Minus |-> <<"-">>, Mult |-> <<"*">>, Divide |-> <<"/">>,
     Percent |-> <<"%">>, AndAnd |-> <<"&", "&">>, Or |-> <<"|", "|">>,
     Eq |-> <<"=", "=">>, NotEq |-> <<"!", "=">>, Greater |-> <<">">>,
     GreaterOrEq |-> <<">", "=">>, Less |-> <<"<">>, LessOrEq |-> <<"<", "=">>,
     PlusEq |-> <<"+", "=">>, MinEq |-> <<"-", "=">>, MultEq |-> <<"*", "=">>,
     DivEq |-> <<"/", "=">>, Square |-> <<"*", "*">>, And |-> <<"&">>,
     Not |-> <<"!">>, NotNot |-> <<"!", "!">>, Queston |-> <<"?">>,
     Decr |-> <<"-", "-">>, Increment |-> <<"+", "+">>, Eof |-> <<NUL>>]

\* the token of a keyword, operator or delimiter
K(kind) == Tk(kind, Spelling[kind])
\* an identifier token
Id(name) == Tk("Ident", name)
\* a one-digit decimal number literal
Num(n) ==
    [token |-> "NumberLit", lexeme |-> <<CHOOSE c \in Digits : DigitValue(c) = n>>,
     value |-> NumberValue("Decimal", n), line |-> 1]
\* the string literal "m"
Str == [token |-> "StringLit", lexeme |-> <<DQ, "m", DQ>>, value |-> StringValue(<<"m">>),
        line |-> 1]

RECURSIVE Flatten(_)
Flatten(seqs) == IF Len(seqs) = 0 THEN <<>> ELSE Head(seqs) \o Flatten(Tail(seqs))

SeqsUpTo(S, n) == UNION {[1..k -> S] : k \in 0..n}

(***************************************************************************)
(* Function declarations: `func [pub] [async] name ( [receiver] [params] ) *)
(* -> type body`.                                                          *)
(***************************************************************************)
Modifiers == {"none", "pub", "async", "pub async", "async pub"}
Receivers == {"none", "self", "mut self"}
Bodies == {"empty", "return", "assign"}

FuncDecls ==
    [name : {<<"f">>}, mods : Modifiers, recv : Receivers, param : BOOLEAN,
     rtype : {"VoidIdent", "NumberIdent"}, body : Bodies]

\* a function with no modifier, no parameter, return type void and body {}
PlainDecl(name) ==
    [name |-> name, mods |-> "none", recv |-> "none", param |-> FALSE,
     rtype |-> "VoidIdent", body |-> "empty"]

ModifierTokens(m) ==
    CASE m = "none" -> <<>>
      [] m = "pub" -> <<K("Pub")>>
      [] m = "async" -> <<K("Async")>>
      [] m = "pub async" -> <<K("Pub"), K("Async")>>
      [] m = "async pub" -> <<K("Async"), K("Pub")>>

ReceiverTokens(r) ==
    CASE r = "none" -> <<>>
      [] r = "self" -> <<K("Slf")>>
      [] r = "mut self" -> <<K("Mut"), K("Slf")>>

ParamTokens(d) ==
    ReceiverTokens(d.recv)
    \o (IF d.recv # "none" /\ d.param THEN <<K("Comma")>> ELSE <<>>)
    \o (IF d.param THEN <<Id(<<"a">>), K("Colon"), K("NumberIdent")>> ELSE <<>>)

BodyTokens(b) ==
    CASE b = "empty" -> <<K("LeftBrace"), K("RightBrace")>>
      [] b = "return" -> <<K("LeftBrace"), K("Return"), Num(1), K("Semi"), K("RightBrace")>>
      [] b = "assign" -> <<K("Assign"), Num(1), K("Semi")>>

DeclTokens(d) ==
    <<K("Func")>> \o ModifierTokens(d.mods) \o <<Id(d.name), K("LeftParen")>>
    \o ParamTokens(d) \o <<K("RightParen"), K("Arrow"), K(d.rtype)>> \o BodyTokens(d.body)

(***************************************************************************)
(* `impl Name { d1 .. dk }`.                                               *)
(***************************************************************************)
MaxImplFuncs == 2

ImplDecls ==
    {PlainDecl(<<"f">>), PlainDecl(<<"g">>),
     [name |-> <<"m">>, mods |-> "pub", recv |-> "self", param |-> FALSE,
      rtype |-> "NumberIdent", body |-> "assign"],
     [name |-> <<"n">>, mods |-> "async pub", recv |-> "mut self", param |-> TRUE,
      rtype |-> "NumberIdent", body |-> "return"]}

ImplNames == {<<"N", "a", "m", "e">>, <<"T">>}

ImplInputs ==
    {[kind |-> "impl", name |-> n, decls |-> ds] :
        n \in ImplNames, ds \in SeqsUpTo(ImplDecls, MaxImplFuncs)}

ImplTokens(in) ==
    <<K("Impl"), Id(in.name), K("LeftBrace")>>
    \o Flatten([k \in 1..Len(in.decls) |-> DeclTokens(in.decls[k])])
    \o <<K("RightBrace"), K("Eof")>>

FuncInputs == {[kind |-> "func", decl |-> d] : d \in FuncDecls}

FuncTokens(in) == DeclTokens(in.decl) \o <<K("Eof")>>

(***************************************************************************)
(* Binary chains `u0 op1 u1 .. opn un`, in the three places where the      *)
(* grammar starts an expression after a keyword: `return E ;`,             *)
(* `let x : number = E ;` and `while E { }`.                               *)
(***************************************************************************)
MaxOps == 2

NumOperand(k) == [form |-> "num", n |-> k]

\* 1, a, !a, (1), f(2)
OperandForms ==
    {NumOperand(1), [form |-> "var", n |-> 0], [form |-> "not", n |-> 0],
     [form |-> "group", n |-> 1], [form |-> "call", n |-> 2]}

OperandTokens(u) ==
    CASE u.form = "num" -> <<Num(u.n)>>
      [] u.form = "var" -> <<Id(<<"a">>)>>
      [] u.form = "not" -> <<K("Not"), Id(<<"a">>)>>
      [] u.form = "group" -> <<K("LeftParen"), Num(u.n), K("RightParen")>>
      [] u.form = "call" -> <<Id(<<"f">>), K("LeftParen"), Num(u.n), K("RightParen")>>

Contexts == {"return", "let", "while"}

\* 1 op 2 op 3 ..: every sequence of operators, the k-th operand the literal k
ChainInputs ==
    {[kind |-> "expr", ctx |-> c, ops |-> os,
      operands |-> [k \in 1..(Len(os) + 1) |-> NumOperand(k)]] :
        c \in Contexts, os \in SeqsUpTo(BinaryOperators, MaxOps)}

\* u0 op u1: every operator between every two operand forms
PairInputs ==
    {[kind |-> "expr", ctx |-> c, ops |-> <<o>>, operands |-> <<u0, u1>>] :
        c \in Contexts, o \in BinaryOperators, u0 \in OperandForms, u1 \in OperandForms}

ExprInputs == ChainInputs \cup PairInputs

ChainTokens(in) ==
    OperandTokens(in.operands[1])
    \o Flatten([k \in 1..Len(in.ops) |-> <<K(in.ops[k])>> \o OperandTokens(in.operands[k + 1])])

ExprTokens(in) ==
    CASE in.ctx = "return" -> <<K("Return")>> \o ChainTokens(in) \o <<K("Semi"), K("Eof")>>
      [] in.ctx = "let" ->
            <<K("Let"), Id(<<"x">>), K("Colon"), K("NumberIdent"), K("Assign")>>
            \o ChainTokens(in) \o <<K("Semi"), K("Eof")>>
      [] in.ctx = "while" ->
            <<K("While")>> \o ChainTokens(in)
            \o <<K("LeftBrace"), K("RightBrace"), K("Eof")>>

(***************************************************************************)
(* Programs: sequences of statements from a pool.                          *)
(***************************************************************************)
MaxStmts == 2

Pool ==
    [let_bare |-> <<K("Let"), Id(<<"x">>), K("Semi")>>,
     let_mut |-> <<K("Let"), K("Mut"), Id(<<"x">>), K("Comma"), Id(<<"y">>), K("Semi")>>,
     let_null |-> <<K("Let"), Id(<<"x">>), K("Colon"), K("NullIdent"), K("Semi")>>,
     let_null_init |-> <<K("Let"), Id(<<"x">>), K("Colon"), K("NullIdent"), K("Assign"),
                         Num(1), K("Semi")>>,
     let_init |-> <<K("Let"), Id(<<"x">>), K("Colon"), K("NumberIdent"), K("Assign"),
                    Num(1), K("Semi")>>,
     let_pub |-> <<K("Let"), K("Pub"), K("LeftParen"), Id(<<"x">>), K("RightParen"),
                   Id(<<"x">>), K("Colon"), K("AnyIdent"), K("Assign"), Id(<<"a">>),
                   K("Semi")>>,
     let_closure |-> <<K("Let"), Id(<<"f">>), K("Colon"), K("NumberIdent"), K("Assign"),
                       K("Pipe"), K("Pipe"), K("Underscore"), K("Pipe"), K("Colon"),
                       Num(1), K("Semi"), K("Semi")>>,
     let_closure_block |-> <<K("Let"), Id(<<"f">>), K("Colon"), K("NumberIdent"),
                             K("Assign"), K("Pipe"), K("Pipe"), Id(<<"a">>), K("Colon"),
                             K("NumberIdent"), K("Pipe"), K("LeftBrace"), K("Let"),
                             Id(<<"y">>), K("Semi"), K("RightBrace"), K("Plus"), Num(2),
                             K("Semi")>>,
     closure_expr |-> <<K("Let"), Id(<<"f">>), K("Colon"), K("NumberIdent"), K("Assign"),
                        K("Pipe"), K("Underscore"), K("Pipe"), K("Colon"), Num(1),
                        K("Semi"), K("Semi")>>,
     closure_block |-> <<K("Let"), Id(<<"f">>), K("Colon"), K("NumberIdent"), K("Assign"),
                         K("Pipe"), Id(<<"a">>), K("Colon"), K("NumberIdent"), K("Comma"),
                         Id(<<"b">>), K("Colon"), K("AnyIdent"), K("Pipe"),
                         K("LeftBrace"), K("Break"), K("Semi"), K("RightBrace"),
                         K("Semi")>>,
     return_bare |-> <<K("Return"), K("Semi")>>,
     return_num |-> <<K("Return"), Num(1), K("Semi")>>,
     return_sum |-> <<K("Return"), Num(1), K("Plus"), Num(2), K("Semi")>>,
     return_call |-> <<K("Return"), Id(<<"f">>), K("LeftParen"), Num(1), K("Comma"),
                       Id(<<"a">>), K("Minus"), Num(2), K("RightParen"), K("Semi")>>,
     return_unary |-> <<K("Return"), K("Not"), K("LeftParen"), Id(<<"a">>),
                        K("RightParen"), K("Semi")>>,
     return_field |-> <<K("Return"), Id(<<"a">>), K("Dot"), Id(<<"b">>), K("Semi")>>,
     return_variant |-> <<K("Return"), Id(<<"E">>), K("DblColon"), Id(<<"A">>), K("Semi")>>,
     return_array |-> <<K("Return"), K("LeftBracket"), Num(1), K("Comma"), Num(2),
                        K("RightBracket"), K("Semi")>>,
     break |-> <<K("Break"), K("Semi")>>,
     while |-> <<K("While"), Id(<<"a">>), K("LeftBrace"), K("Return"), Num(1), K("Semi"),
                 K("RightBrace")>>,
     if_else |-> <<K("If"), Id(<<"a">>), K("LeftBrace"), K("RightBrace"), K("ElseIf"),
                   Id(<<"b">>), K("LeftBrace"), K("RightBrace"), K("Else"),
                   K("LeftBrace"), K("RightBrace")>>,
     loop_count |-> <<K("Loop"), Num(2), K("LeftBrace"), K("RightBrace")>>,
     loop_null |-> <<K("Loop"), Num(2), K("NullLit"), K("LeftBrace"), K("RightBrace")>>,
     loop_bare |-> <<K("Loop"), K("LeftBrace"), K("Break"), K("Semi"), K("RightBrace")>>,
     block |-> <<K("LeftBrace"), K("Return"), Num(1), K("Semi"), K("RightBrace")>>,
     mod |-> <<K("Mod"), Str, K("Semi")>>,
     use |-> <<K("Use"), Id(<<"a">>), K("As"), Id(<<"b">>), K("Comma"), K("From"), Str,
               K("Semi")>>,
     use_two |-> <<K("Use"), Id(<<"a">>), K("As"), Id(<<"b">>), K("Comma"), Id(<<"c">>),
                   K("From"), Str, K("Semi")>>,
     struct |-> <<K("Struct"), K("Pub"), Id(<<"S">>), K("LeftBrace"), K("Pub"), Id(<<"a">>),
                  K("Colon"), K("Less"), K("NumberIdent"), K("Greater"), K("Comma"),
                  Id(<<"b">>), K("Colon"), K("Pipe"), K("NumberIdent"), K("Pipe"),
                  K("VoidIdent"), K("RightBrace")>>,
     enum |-> <<K("Enum"), Id(<<"E">>), K("LeftBrace"), Id(<<"A">>), K("Comma"),
                Id(<<"B">>), K("RightBrace")>>,
     match |-> <<K("Match"), Id(<<"a">>), K("LeftBrace"), Num(1), K("ArrowBig"), Num(2),
                 K("Comma"), K("Underscore"), K("ArrowBig"), Num(3), K("Comma"),
                 K("RightBrace")>>,
     func |-> DeclTokens(PlainDecl(<<"f">>)),
     expr_num |-> <<Num(1), K("Plus"), Num(2), K("Semi")>>,
     expr_juxt |-> <<Id(<<"a">>), Id(<<"b">>), K("Semi")>>,
     expr_var |-> <<Id(<<"x">>), K("Semi")>>,
     expr_call |-> <<Id(<<"f">>), K("LeftParen"), Id(<<"x">>), K("RightParen"), K("Semi")>>,
     await |-> <<K("Return"), K("Await"), Id(<<"a">>), K("Semi")>>]

ProgInputs ==
    {[kind |-> "prog", items |-> is] : is \in SeqsUpTo(DOMAIN Pool, MaxStmts)}

ProgTokens(in) ==
    Flatten([k \in 1..Len(in.items) |-> Pool[in.items[k]]]) \o <<K("Eof")>>

(***************************************************************************)
(* Arbitrary short token sequences.                                        *)
(***************************************************************************)
MaxRaw == 3

RawTokens ==
    {K("Let"), K("Return"), K("Impl"), K("Use"), K("Semi"), K("Plus"), K("LeftParen"),
     K("RightParen"), K("LeftBrace"), K("RightBrace"), K("Colon"), K("NullIdent"),
     Id(<<"x">>), Id(<<"T">>), Num(1)}

RawInputs == {[kind |-> "raw", toks |-> ts] : ts \in SeqsUpTo(RawTokens, MaxRaw)}

RawTokenSeq(in) == in.toks \o <<K("Eof")>>

Inputs == ImplInputs \cup FuncInputs \cup ExprInputs \cup ProgInputs \cup RawInputs

Layout(in) ==
    CASE in.kind = "impl" -> ImplTokens(in)
      [] in.kind = "func" -> FuncTokens(in)
      [] in.kind = "expr" -> ExprTokens(in)
      [] in.kind = "prog" -> ProgTokens(in)
      [] in.kind = "raw" -> RawTokenSeq(in)

(***************************************************************************)
(* Parser::new and the loop of Parser::parse, one statement per step.      *)
(***************************************************************************)
\* the parser's cursor at the start of a statement
Cursor ==
    [crnt |-> parser.crnt, id |-> parser.id, err |-> parser.err, status |-> "ok"]

ParseInit ==
    /\ input \in Inputs
    /\ parser = [tokens |-> Layout(input), err |-> <<>>, crnt |-> 0, id |-> 0]
    /\ parsepc = "parse"
    /\ stmts = <<>>
    /\ lexer = IdleLexer
    /\ lexpc = "idle"

\* one iteration of the while loop: stmt() and stmts.push.  A panic, an
\* exit(1) or a statement that never ends leaves no statement sequence.
ParseStmt ==
    /\ parsepc = "parse"
    /\ ~check(Cursor, "Eof")
    /\ \E r \in {stmt(Cursor)} :
          /\ parser' = [parser EXCEPT !.crnt = r.p.crnt, !.id = r.p.id, !.err = r.p.err]
          /\ stmts' = IF Running(r.p) THEN Append(stmts, r.v) ELSE stmts
          /\ parsepc' = IF Running(r.p) THEN "parse" ELSE r.p.status
    /\ UNCHANGED <<lexer, lexpc, input>>

\* the loop ends at the end-of-input token and parse returns stmts
ParseDone ==
    /\ parsepc = "parse"
    /\ check(Cursor, "Eof")
    /\ parsepc' = "done"
    /\ UNCHANGED <<lexer, lexpc, parser, stmts, input>>

ParseNext == ParseStmt \/ ParseDone

ParseSpec == ParseInit /\ [][ParseNext]_vars

(***************************************************************************)
(* Lexer claims.                                                           *)
(***************************************************************************)
LexTokens == lexer.tokens
LastToken(toks) == toks[Len(toks)]

\* the two-character operator spellings and the token kind of each
TwoCharOperators ==
    { <<<<"-", "-">>, "Decr">>, <<<<">", "=">>, "GreaterOrEq">>,
      <<<<".", ".">>, "DotDot">>, <<<<"&", "&">>, "AndAnd">>,
      <<<<"|", "|">>, "Or">>, <<<<"=", "=">>, "Eq">>, <<<<"!", "=">>, "NotEq">>,
      <<<<"+", "=">>, "PlusEq">>, <<<<"-", "=">>, "MinEq">>,
      <<<<"*", "=">>, "MultEq">>, <<<<"/", "=">>, "DivEq">>,
      <<<<"-", ">">>, "Arrow">>, <<<<"=", ">">>, "ArrowBig">>,
      <<<<":", ":">>, "DblColon">> }

\* C1: lexing a source that is exactly a two-character operator spelling
\* yields exactly one token before the end-of-input token, of the operator's
\* own kind, of length 2, whose lexeme is the whole input.
C1_TwoCharOperatorOneToken ==
    \A op \in TwoCharOperators :
        (lexer.source = op[1] /\ lexpc # "scan") =>
            /\ lexpc = "done"
            /\ Len(LexTokens) = 2
            /\ LexTokens[1].token = op[2]
            /\ LexTokens[1].len = 2
            /\ LexTokens[1].lexeme = lexer.source

\* a source that is one terminated string literal: "s" with no quote in s
IsStringLiteral(src) ==
    /\ Len(src) >= 2
    /\ src[1] = DQ
    /\ src[Len(src)] = DQ
    /\ \A i \in 2..(Len(src) - 1) : src[i] # DQ

\* C2: lexing a terminated string literal "s" yields one string-literal token
\* whose value is s, the text strictly between the quotes, and whose lexeme
\* is the full source text including both quotes.
C2_StringValueBetweenQuotes ==
    IsStringLiteral(lexer.source) =>
        /\ lexpc # "panic"
        /\ lexer.crnt > 0 =>
              /\ LexTokens[1].token = "StringLit"
              /\ LexTokens[1].value = StringValue(SubSeq(lexer.source, 2,
                                                         Len(lexer.source) - 1))
              /\ LexTokens[1].lexeme = lexer.source
        /\ lexpc = "done" =>
              /\ Len(LexTokens) = 2
              /\ LexTokens[2].token = "Eof"

C2_Witness ==
    /\ lexpc = "done"
    /\ lexer.source = <<DQ, "h", "i", DQ>>
    /\ LexTokens[1].token = "StringLit"
    /\ LexTokens[1].value.text = <<"h", "i">>
    /\ LexTokens[1].lexeme = <<DQ, "h", "i", DQ>>

\* the number of newline characters of a text
RECURSIVE NewlineCount(_)
NewlineCount(text) ==
    IF Len(text) = 0 THEN 0
    ELSE NewlineCount(Tail(text)) + (IF Head(text) = NL THEN 1 ELSE 0)

\* a lexer step that scans a string literal to its closing quote
StringStep ==
    /\ lexpc = "scan"
    /\ lex_peek(lexer.crnt) = DQ
    /\ lexpc' = "scan"
    /\ lexer' # lexer

\* C3: a string literal that contains k newline characters increments the
\* line counter k times: the string token carries line = (line at the
\* opening quote) + k, and the end-of-input token that follows the literal
\* carries the same line.
C3_StringCountsNewlines ==
    /\ [][StringStep =>
            /\ Len(lexer'.tokens) = Len(lexer.tokens) + 1
            /\ LastToken(lexer'.tokens).token = "StringLit"
            /\ LastToken(lexer'.tokens).line
                  = lexer.line + NewlineCount(LastToken(lexer'.tokens).value.text)
            /\ lexer'.line = LastToken(lexer'.tokens).line]_vars
    /\ [](( /\ lexpc = "done"
            /\ Len(LexTokens) >= 2
            /\ LexTokens[Len(LexTokens) - 1].token = "StringLit"
            /\ lexer.source[Len(lexer.source)] = DQ )
          => LastToken(LexTokens).line = LexTokens[Len(LexTokens) - 1].line)

C3_Witness ==
    /\ lexpc = "done"
    /\ lexer.source = <<"a", NL, DQ, "b", NL, DQ>>
    /\ LexTokens[2].token = "StringLit"
    /\ LexTokens[2].line = 3
    /\ LexTokens[3].token = "Eof"
    /\ LexTokens[3].line = 3

\* the value of a digit run in a radix (hexadecimal digits in lower case)
HexValue(c) ==
    CASE c = "a" -> 10 [] c = "b" -> 11 [] c = "c" -> 12 [] c = "d" -> 13
      [] c = "e" -> 14 [] c = "f" -> 15 [] OTHER -> DigitValue(c)

RECURSIVE RadixValue(_, _)
RadixValue(ds, radix) ==
    IF Len(ds) = 0 THEN 0
    ELSE radix * RadixValue(SubSeq(ds, 1, Len(ds) - 1), radix) + HexValue(ds[Len(ds)])

\* the base markers and the base tag and radix of each
BaseMarkers == { <<"b", "Binary", 2>>, <<"o", "Octal", 8>>, <<"x", "Hexadecimal", 16>> }

\* a source that is one prefixed literal: 0, the marker m[1], a digit run
IsPrefixedLiteral(src, m) ==
    /\ Len(src) >= 3
    /\ src[1] = "0"
    /\ src[2] = m[1]
    /\ \A i \in 3..Len(src) : is_digit(src[i], m[3]) /\ src[i] \notin UpperLetters

\* C4: for a prefixed numeric literal 0b<digits>, 0o<digits> or 0x<digits>
\* the lexer emits exactly one number-literal token whose base tag is
\* Binary/Octal/Hexadecimal, whose value is the digit run interpreted in
\* that radix, and whose lexeme is the full text including the prefix.
C4_PrefixedLiteralValue ==
    \A m \in BaseMarkers :
        (IsPrefixedLiteral(lexer.source, m) /\ lexpc # "scan") =>
            /\ lexpc = "done"
            /\ Len(LexTokens) = 2
            /\ LexTokens[1].token = "NumberLit"
            /\ LexTokens[1].value
                  = NumberValue(m[2], RadixValue(SubSeq(lexer.source, 3,
                                                        Len(lexer.source)), m[3]))
            /\ LexTokens[1].lexeme = lexer.source

\* C5: for every source text lex returns a token sequence whose last element
\* is an end-of-input token with length 0 and line equal to the last line
\* reached by the scan, and no other element is an end-of-input token.
C5_AlwaysEofTerminated ==
    /\ lexpc # "panic"
    /\ lexpc = "done" =>
          /\ Len(LexTokens) >= 1
          /\ LastToken(LexTokens).token = "Eof"
          /\ LastToken(LexTokens).len = 0
          /\ LastToken(LexTokens).line = lexer.line
          /\ \A i \in 1..(Len(LexTokens) - 1) : LexTokens[i].token # "Eof"

(***************************************************************************)
(* Parser claims.                                                          *)
(***************************************************************************)
RECURSIVE ExprNodes(_), ExprSeqNodes(_), BodyNodes(_)
RECURSIVE StmtNodes(_), StmtSeqNodes(_), BranchNodes(_), CaseNodes(_)

\* the expression nodes of e in the order they are written, e first
ExprNodes(e) ==
    CASE e.node = "Binary" -> <<e>> \o ExprNodes(e.left) \o ExprNodes(e.right)
      [] e.node = "Unary" -> <<e>> \o ExprNodes(e.left)
      [] e.node = "Grouping" -> <<e>> \o ExprNodes(e.expression)
      [] e.node = "Call" -> <<e>> \o ExprNodes(e.name) \o ExprSeqNodes(e.args)
      [] e.node = "Func" -> <<e>> \o BodyNodes(e.body)
      [] e.node = "Await" -> <<e>> \o ExprNodes(e.expr)
      [] OTHER -> <<e>>

ExprSeqNodes(es) ==
    IF Len(es) = 0 THEN <<>> ELSE ExprNodes(Head(es)) \o ExprSeqNodes(Tail(es))

BodyNodes(b) ==
    IF b.body = "Statements" THEN StmtSeqNodes(b.stmts) ELSE ExprNodes(b.expr)

\* the expression nodes of a statement
StmtNodes(s) ==
    CASE s.stmt \in {"Expression", "Return"} -> ExprNodes(s.expr)
      [] s.stmt = "Block" -> StmtSeqNodes(s.stmts)
      [] s.stmt = "Var" -> IF s.value.some THEN ExprNodes(s.value.v) ELSE <<>>
      [] s.stmt = "Func" -> BodyNodes(s.body)
      [] s.stmt = "If" ->
            ExprNodes(s.cond) \o StmtSeqNodes(s.body) \o BranchNodes(s.else_if_branches)
            \o (IF s.else_branch.some THEN StmtSeqNodes(s.else_branch.v) ELSE <<>>)
      [] s.stmt = "While" -> ExprNodes(s.cond) \o StmtSeqNodes(s.body)
      [] s.stmt \in {"Loop", "Impl"} -> StmtSeqNodes(s.body)
      [] s.stmt = "Match" ->
            ExprNodes(s.cond) \o CaseNodes(s.cases) \o BodyNodes(s.def_case)
      [] OTHER -> <<>>

StmtSeqNodes(ss) ==
    IF Len(ss) = 0 THEN <<>> ELSE StmtNodes(Head(ss)) \o StmtSeqNodes(Tail(ss))

BranchNodes(bs) ==
    IF Len(bs) = 0 THEN <<>>
    ELSE ExprNodes(Head(bs)[1]) \o StmtSeqNodes(Head(bs)[2]) \o BranchNodes(Tail(bs))

CaseNodes(cs) ==
    IF Len(cs) = 0 THEN <<>>
    ELSE ExprNodes(Head(cs)[1]) \o BodyNodes(Head(cs)[2]) \o CaseNodes(Tail(cs))

\* every expression node of the statements parsed so far
AstNodes == StmtSeqNodes(stmts)

\* an expression or a function statement with every id set to 0
RECURSIVE ExprShape(_), StmtShape(_)
ExprShape(e) ==
    CASE e.node = "Binary" ->
            [e EXCEPT !.id = 0, !.left = ExprShape(@), !.right = ExprShape(@)]
      [] e.node = "Unary" -> [e EXCEPT !.id = 0, !.left = ExprShape(@)]
      [] e.node = "Grouping" -> [e EXCEPT !.id = 0, !.expression = ExprShape(@)]
      [] e.node = "Call" ->
            [e EXCEPT !.id = 0, !.name = ExprShape(@),
                      !.args = [k \in 1..Len(@) |-> ExprShape(@[k])]]
      [] OTHER -> [e EXCEPT !.id = 0]

StmtShape(s) ==
    CASE s.stmt = "Return" -> [s EXCEPT !.expr = ExprShape(@)]
      [] s.stmt = "Func" ->
            [s EXCEPT !.body.stmts = [k \in 1..Len(@) |-> StmtShape(@[k])]]
      [] OTHER -> s

\* the parse has not stopped in a panic, an exit or an endless loop
ParseRuns == parsepc \in {"parse", "done"}

\* the cursor is on the end-of-input token: every token has been consumed
AtEof == parser.crnt = Len(Toks) - 1

HasPub(d) == d.mods \in {"pub", "pub async", "async pub"}
HasAsync(d) == d.mods \in {"async", "pub async", "async pub"}

\* the Func statement a declaration stands for, ids set to 0
ExpectedFunc(d) ==
    [stmt |-> "Func", name |-> Id(d.name), value_type |-> K(d.rtype),
     body |-> [body |-> "Statements",
               stmts |-> IF d.body = "empty" THEN <<>>
                         ELSE <<[stmt |-> "Return",
                                 expr |-> [node |-> "Value", id |-> 0,
                                           value |-> LitNumber(1)]]>>],
     params |-> IF d.param THEN << <<Id(<<"a">>), K("NumberIdent")>> >> ELSE <<>>,
     is_async |-> HasAsync(d), is_pub |-> HasPub(d),
     is_impl |-> d.recv # "none", is_mut |-> d.recv = "mut self"]

\* C6: parsing `impl Name { d1 .. dk }`, Name an uppercase-leading identifier
\* and every di a function declaration, yields exactly one top-level Impl
\* statement whose name is the Name token and whose body is the k Func
\* statements of d1 .. dk in source order (empty for k = 0); the closing
\* brace is consumed and no further statement is produced.
C6_ImplBodyInOrder ==
    input.kind = "impl" =>
        /\ ParseRuns
        /\ parser.crnt > 0 =>
              /\ Len(stmts) = 1
              /\ stmts[1].stmt = "Impl"
              /\ stmts[1].name = Id(input.name)
              /\ Len(stmts[1].body) = Len(input.decls)
              /\ \A k \in 1..Len(input.decls) :
                    StmtShape(stmts[1].body[k]) = ExpectedFunc(input.decls[k])
              /\ AtEof

C6_Witness ==
    /\ parsepc = "done"
    /\ input.kind = "impl"
    /\ Len(input.decls) = 2
    /\ input.decls[1] # input.decls[2]
    /\ Len(stmts) = 1
    /\ stmts[1].stmt = "Impl"
    /\ stmts[1].body[1].name = Id(input.decls[1].name)
    /\ stmts[1].body[2].name = Id(input.decls[2].name)

\* the four flags of Func statement s are those of declaration d
FlagsMatch(s, d) ==
    /\ s.stmt = "Func"
    /\ s.is_pub = HasPub(d)
    /\ s.is_async = HasAsync(d)
    /\ s.is_impl = (d.recv # "none")
    /\ s.is_mut = (d.recv = "mut self")

\* s is a function with all four flags false, no parameter and an empty
\* statement block as body
IsPlainFunc(s) ==
    /\ ~s.is_pub /\ ~s.is_async /\ ~s.is_impl /\ ~s.is_mut
    /\ s.params = <<>>
    /\ s.body = [body |-> "Statements", stmts |-> <<>>]

ExpectedOperand(u) ==
    CASE u.form = "num" -> ValueNode(0, LitNumber(u.n))
      [] u.form = "var" -> VarNode(0, Id(<<"a">>))
      [] u.form = "not" -> UnaryNode(0, VarNode(0, Id(<<"a">>)), K("Not"))
      [] u.form = "group" -> GroupingNode(0, ValueNode(0, LitNumber(u.n)))
      [] u.form = "call" ->
            CallNode(0, VarNode(0, Id(<<"f">>)), <<ValueNode(0, LitNumber(u.n))>>, "Func")

\* Binary(..Binary(Binary(u0, op1, u1), op2, u2).., opk, uk), ids set to 0
RECURSIVE LeftFold(_, _, _)
LeftFold(operands, ops, k) ==
    IF k = 0 THEN ExpectedOperand(operands[1])
    ELSE [node |-> "Binary", id |-> 0, left |-> LeftFold(operands, ops, k - 1),
          operator |-> K(ops[k]), right |-> ExpectedOperand(operands[k + 1])]

\* the expression of the statement that `return E ;`, `let x : number = E ;`
\* or `while E { }` parses to
ParsedExpr(s, ctx) ==
    CASE ctx = "return" -> s.expr
      [] ctx = "let" -> s.value.v
      [] ctx = "while" -> s.cond

ContextStmt(ctx) ==
    CASE ctx = "return" -> "Return"
      [] ctx = "let" -> "Var"
      [] ctx = "while" -> "While"

C9_ExpressionIdsUnique ==
    parsepc = "done" =>
        \A i, j \in 1..Len(AstNodes) : i < j => AstNodes[i].id # AstNodes[j].id

\* every id of node sequence a is smaller than every id of node sequence b
AllBefore(a, b) == \A i \in 1..Len(a), j \in 1..Len(b) : a[i].id < b[j].id

\* the expressions nested inside node n
Nested(n) == Tail(ExprNodes(n))

\* the arguments of a Call, as written: an earlier one has the smaller ids
ArgsInOrder(n) ==
    \A i, j \in 1..Len(n.args) :
        i < j => AllBefore(ExprNodes(n.args[i]), ExprNodes(n.args[j]))

\* C10 as stated: within one statement the ids increase in pre-order, i.e. a
\* composite node (Binary, Unary, Grouping, Call, Await) has a smaller id
\* than every expression nested inside it, and of two sibling
\* sub-expressions the one written earlier has the smaller id.
C10_PreOrderIds ==
    \A k \in 1..Len(AstNodes) :
        LET n == AstNodes[k]
        IN /\ n.node \in {"Binary", "Unary", "Grouping", "Call", "Await"} =>
                 AllBefore(<<n>>, Nested(n))
           /\ n.node = "Binary" => AllBefore(ExprNodes(n.left), ExprNodes(n.right))
           /\ n.node = "Call" =>
                 /\ AllBefore(ExprNodes(n.name), ExprSeqNodes(n.args))
                 /\ ArgsInOrder(n)

\* C10, amended: within one statement the ids follow the order in which the
\* nodes are constructed, which is post-order.  A Binary, Unary or Grouping
\* node has a larger id than every expression nested inside it; a Call node
\* has a larger id than every expression of its arguments, and its callee
\* Var carries the id after the Call's; of two sibling sub-expressions (the
\* operands of a Binary, the arguments of a Call) the one written earlier
\* has the smaller ids.
C10_ConstructionOrderIds ==
    \A k \in 1..Len(AstNodes) :
        LET n == AstNodes[k]
        IN /\ n.node \in {"Binary", "Unary", "Grouping"} => AllBefore(Nested(n), <<n>>)
           /\ n.node = "Binary" => AllBefore(ExprNodes(n.left), ExprNodes(n.right))
           /\ n.node = "Call" =>
                 /\ AllBefore(ExprSeqNodes(n.args), <<n>>)
                 /\ n.name.id = n.id + 1
                 /\ ArgsInOrder(n)

C10_Witness ==
    /\ parsepc = "done"
    /\ input.kind = "prog"
    /\ input.items = <<"return_call">>
    /\ stmts[1].expr.node = "Call"
    /\ Len(stmts[1].expr.args) = 2
    /\ stmts[1].expr.args[2].node = "Binary"
    /\ stmts[1].expr.args[2].id > stmts[1].expr.args[2].right.id
    /\ stmts[1].expr.id > stmts[1].expr.args[2].id
    /\ stmts[1].expr.name.id = stmts[1].expr.id + 1

\* C11: the ids of the expression nodes of the AST returned by one parse pass
\* are dense and start at 0: for n expression nodes the set of their ids is
\* exactly 0 .. n-1, no id being consumed by a node that is later discarded.
C11_IdsDenseFromZero ==
    parsepc = "done" =>
        {AstNodes[i].id : i \in 1..Len(AstNodes)} = 0..(Len(AstNodes) - 1)

\* the lexical-error diagnostics the lexer has reported: the Lexer struct has
\* no field for them and the `@error` site of an unterminated string is an
\* empty block, so the collection is empty in every state
lex_diagnostics == <<>>

\* a source that is one string literal left open: an opening quote and no
\* other quote up to the end of input
IsUnterminatedString(src) ==
    /\ Len(src) >= 1
    /\ src[1] = DQ
    /\ \A i \in 2..Len(src) : src[i] # DQ

\* C12: for a string literal that is not terminated at end of input the lexer
\* reports a lexical-error diagnostic and emits no string-literal token
\* holding the truncated text.
C12_UnterminatedStringReported ==
    (IsUnterminatedString(lexer.source) /\ lexpc # "scan") =>
        /\ Len(lex_diagnostics) > 0
        /\ \A i \in 1..Len(LexTokens) : LexTokens[i].token # "StringLit"

\* C13: on no token sequence does the parser terminate the hosting process:
\* a parse never ends in a call of process::exit.
C13_NeverExitsProcess == parsepc # "exit"

\* the diagnostics emitted so far
Diagnostics == parser.err

\* C14: when a statement detects a malformed construct it emits one
\* diagnostic and aborts: the cursor stays where the diagnostic was raised,
\* no statement is appended to the result, and control is back in the
\* statement loop.
C14_MalformedStatementAborts ==
    [][Len(Diagnostics') > Len(Diagnostics) =>
          /\ Len(Diagnostics') = Len(Diagnostics) + 1
          /\ parser'.crnt = Diagnostics'[Len(Diagnostics')].crnt
          /\ stmts' = stmts
          /\ parsepc' = "parse"]_vars

\* the characters an identifier starts with, and those it goes on with
IdentStart(ch) == is_alphabetic(ch) \/ ch = "_"
IdentChar(ch) == is_alphanumeric(ch) \/ ch = "_"

\* the end of the maximal run of identifier characters that starts at
\* offset s of the source
RunEnd(s) ==
    CHOOSE e \in s..Len(Src) :
        /\ \A i \in (s + 1)..e : IdentChar(Src[i])
        /\ e = Len(Src) \/ ~IdentChar(Src[e + 1])

\* a lexer step that starts on a letter or an underscore
IdentStep ==
    /\ lexpc = "scan"
    /\ ~is_eof(lexer.crnt)
    /\ IdentStart(Src[lexer.crnt + 1])
    /\ lexer' # lexer

KeywordKinds ==
    {e \in kwds : \A i \in 1..Len(e[1]) : IdentChar(e[1][i])}
    \cup {<<<<"l", "e", "t">>, "Let">>, <<<<"s", "e", "l", "f">>, "Slf">>}

\* a source that is one identifier-shaped word
IsWord(src) ==
    /\ Len(src) >= 1
    /\ IdentStart(src[1])
    /\ \A i \in 1..Len(src) : IdentChar(src[i])

\* C16: lexing a keyword or a type identifier alone yields exactly one token
\* of that word's own kind before the end-of-input token, and lexing any
\* other identifier-shaped word alone yields one generic identifier token.
C16_KeywordsLexToOwnKind ==
    (IsWord(lexer.source) /\ lexpc # "scan") =>
        /\ lexpc = "done"
        /\ Len(LexTokens) = 2
        /\ LexTokens[1].lexeme = lexer.source
        /\ \A e \in KeywordKinds : lexer.source = e[1] => LexTokens[1].token = e[2]
        /\ (\A e \in KeywordKinds : lexer.source # e[1]) => LexTokens[1].token = "Ident"

\* C17: lexing a single-character punctuation alone yields exactly one token
\* before the end-of-input token, with a one-character lexeme and the
\* character's own kind: `,` yields Comma, `:` Colon, `;` Semi, and no other
\* punctuation character yields the kind this one does.
C17_PunctuationOwnKind ==
    (lexer.source \in PunctSources /\ lexpc # "scan") =>
        /\ lexpc = "done"
        /\ Len(LexTokens) = 2
        /\ LexTokens[1].len = 1
        /\ LexTokens[1].lexeme = lexer.source
        /\ lexer.source = <<",">> => LexTokens[1].token = "Comma"
        /\ lexer.source = <<":">> => LexTokens[1].token = "Colon"
        /\ lexer.source = <<";">> => LexTokens[1].token = "Semi"
        /\ \A ch \in PunctChars \ {lexer.source[1]} :
              punct_kind(ch) # LexTokens[1].token

\* the offsets k after the opener at offset s where a `*` immediately
\* followed by `/` starts
Closers(s) ==
    {k \in (s + 2)..(Len(Src) - 2) : Src[k + 1] = "*" /\ Src[k + 2] = "/"}

\* the offset right after the comment opened at offset s: after the first
\* closing pair, or the end of input when there is none
CommentEnd(s) ==
    IF Closers(s) = {} THEN Len(Src)
    ELSE (CHOOSE k \in Closers(s) : \A j \in Closers(s) : k <= j) + 2

\* a lexer step that starts on the opener of a block comment
BlockCommentStep ==
    /\ lexpc = "scan"
    /\ lexer.crnt + 2 <= Len(Src)
    /\ Src[lexer.crnt + 1] = "/"
    /\ Src[lexer.crnt + 2] = "*"
    /\ lexer' # lexer

\* C18: a scan that starts on `/*` emits no token and leaves the cursor right
\* after the first later `*` immediately followed by `/`, both consumed, so
\* that the next token starts there; with no closing pair it leaves the
\* cursor at the end of input.
C18_BlockCommentEndsAtFirstCloser ==
    [][BlockCommentStep =>
          /\ lexpc' = "scan"
          /\ lexer'.tokens = lexer.tokens
          /\ IF Closers(lexer.crnt) = {}
             THEN lexer'.crnt >= Len(Src)
             ELSE lexer'.crnt = CommentEnd(lexer.crnt)]_vars

\* a source that is one decimal literal: a digit run, or a digit run, one
\* point and a digit run
IsDecimalLiteral(src) ==
    /\ Len(src) >= 1
    /\ \A i \in 1..Len(src) : is_ascii_digit(src[i]) \/ src[i] = "."
    /\ Cardinality({i \in 1..Len(src) : src[i] = "."}) <= 1
    /\ is_ascii_digit(src[1])
    /\ is_ascii_digit(src[Len(src)])

\* C19: lexing a decimal literal <digits> or <digits>.<digits> yields exactly
\* one token before the end-of-input token, of kind NumberLit and base
\* Decimal, whose lexeme is the whole literal, the point and the fractional
\* digits included.
C19_DecimalLiteralOneToken ==
    (IsDecimalLiteral(lexer.source) /\ lexpc # "scan") =>
        /\ lexpc = "done"
        /\ Len(LexTokens) = 2
        /\ LexTokens[1].token = "NumberLit"
        /\ LexTokens[1].value.base = "Decimal"
        /\ LexTokens[1].lexeme = lexer.source

\* C20: parsing `let x : null = 1 ;` yields exactly one statement, a Var
\* with names [x], type null and the Null literal as value; the whole
\* declaration through its `;` is consumed and the initializer tokens give
\* no statement of their own.
C20_NullTypedDeclaration ==
    (input = [kind |-> "prog", items |-> <<"let_null_init">>] /\ parser.crnt > 0) =>
        /\ ParseRuns
        /\ AtEof
        /\ Len(stmts) = 1
        /\ stmts[1].stmt = "Var"
        /\ stmts[1].names = <<Id(<<"x">>)>>
        /\ stmts[1].value_type.token = "NullIdent"
        /\ stmts[1].value.some
        /\ stmts[1].value.v.node = "Value"
        /\ stmts[1].value.v.value = LitNull

\* C21: `loop 2 { }` parses to one Loop statement with iter = Some(2) and
\* emits no diagnostic; `loop { break; }` parses to one Loop statement with
\* iter = None.
C21_LoopIterationCount ==
    ( /\ input.kind = "prog"
      /\ input.items \in {<<"loop_count">>, <<"loop_bare">>}
      /\ parser.crnt > 0 ) =>
        /\ ParseRuns
        /\ AtEof
        /\ Diagnostics = <<>>
        /\ Len(stmts) = 1
        /\ stmts[1].stmt = "Loop"
        /\ stmts[1].iter = IF input.items = <<"loop_count">> THEN Some(2) ELSE None

\* C22: `use a as b, c from "path";`, the names separated by a comma and no
\* comma before `from`, parses without any diagnostic to one Use statement
\* whose imports are (a, alias b) and (c, no alias) in this order and whose
\* source is the path string.
C22_UseImportsInOrder ==
    (input = [kind |-> "prog", items |-> <<"use_two">>] /\ parser.crnt > 0) =>
        /\ ParseRuns
        /\ AtEof
        /\ Diagnostics = <<>>
        /\ Len(stmts) = 1
        /\ stmts[1].stmt = "Use"
        /\ stmts[1].names = << <<Id(<<"a">>), Some(Id(<<"b">>))>>, <<Id(<<"c">>), None>> >>
        /\ stmts[1].src = Str.lexeme

\* the closure a declaration `let f : number = <closure> ;` is given
ClosureOf(s) == s.value.v

\* C23: the closure literals `| _ | : 1 ;` and `| a: number, b: any |
\* { break; }`, each opened by one `|`, parse without any diagnostic to a
\* Func expression whose params are the written pairs in source order (none
\* for `_`) and whose body is the expression 1, or the statements of the
\* block.
C23_ClosureLiteral ==
    ( /\ input.kind = "prog"
      /\ input.items \in {<<"closure_expr">>, <<"closure_block">>}
      /\ parser.crnt > 0 ) =>
        /\ ParseRuns
        /\ AtEof
        /\ Diagnostics = <<>>
        /\ Len(stmts) = 1
        /\ stmts[1].stmt = "Var"
        /\ ClosureOf(stmts[1]).node = "Func"
        /\ input.items = <<"closure_expr">> =>
              /\ ClosureOf(stmts[1]).params = <<>>
              /\ ClosureOf(stmts[1]).body.body = "Expression"
              /\ ClosureOf(stmts[1]).body.expr.value = LitNumber(1)
        /\ input.items = <<"closure_block">> =>
              /\ ClosureOf(stmts[1]).params
                    = << <<Id(<<"a">>), K("NumberIdent")>>,
                         <<Id(<<"b">>), K("AnyIdent")>> >>
              /\ ClosureOf(stmts[1]).body.body = "Statements"
              /\ ClosureOf(stmts[1]).body.stmts = <<BreakStmt>>

\* C24: parsing `return await a ;` terminates: the `await` token is consumed
\* and the Return statement carries an Await expression whose inner
\* expression is the variable a.
C24_AwaitTerminates ==
    (input = [kind |-> "prog", items |-> <<"await">>] /\ parser.crnt > 0) =>
        /\ ParseRuns
        /\ AtEof
        /\ Len(stmts) = 1
        /\ stmts[1].stmt = "Return"
        /\ stmts[1].expr.node = "Await"
        /\ stmts[1].expr.expr.node = "Var"
        /\ stmts[1].expr.expr.name = Id(<<"a">>)

\* the statements written between the braces of the inputs `while a
\* { return 1; }` and `{ return 1; }`
ReturnOne == ReturnStmt(ValueNode(0, LitNumber(1)))

\* C25: for `while a { return 1; }` the While statement's body is exactly the
\* statement sequence written between the braces, and both braces are
\* consumed; the standalone block `{ return 1; }` is one Block statement of
\* the same sequence that consumes its own closing brace, so the parse ends
\* at the end of input with that one statement.
C25_BlockBodyAndBraces ==
    ( /\ input.kind = "prog"
      /\ input.items \in {<<"while">>, <<"block">>}
      /\ parser.crnt > 0 ) =>
        /\ ParseRuns
        /\ AtEof
        /\ Len(stmts) = 1
        /\ input.items = <<"while">> =>
              /\ stmts[1].stmt = "While"
              /\ Len(stmts[1].body) = 1
              /\ StmtShape(stmts[1].body[1]) = ReturnOne
        /\ input.items = <<"block">> =>
              /\ stmts[1].stmt = "Block"
              /\ Len(stmts[1].stmts) = 1
              /\ StmtShape(stmts[1].stmts[1]) = ReturnOne

\* C26: a statement that begins with no statement keyword and no `{` is an
\* expression statement whose expr is the parse of all its tokens, the first
\* one included: `x;` yields Var x and `f(x);` yields a Call on f with the
\* argument x.
C26_ExpressionStatementWhole ==
    ( /\ input.kind = "prog"
      /\ input.items \in {<<"expr_var">>, <<"expr_call">>}
      /\ parser.crnt > 0 ) =>
        /\ ParseRuns
        /\ AtEof
        /\ Len(stmts) = 1
        /\ stmts[1].stmt = "Expression"
        /\ input.items = <<"expr_var">> =>
              /\ stmts[1].expr.node = "Var"
              /\ stmts[1].expr.name = Id(<<"x">>)
        /\ input.items = <<"expr_call">> =>
              /\ stmts[1].expr.node = "Call"
              /\ stmts[1].expr.name.node = "Var"
              /\ stmts[1].expr.name.name = Id(<<"f">>)
              /\ Len(stmts[1].expr.args) = 1
              /\ stmts[1].expr.args[1].node = "Var"
              /\ stmts[1].expr.args[1].name = Id(<<"x">>)

\* C27: on every token sequence that ends in one end-of-input token, input
\* that ends inside an unclosed construct included, the parse terminates: no
\* loop and no recursion of the parser goes on forever without consuming a
\* token.
C27_ParseTerminates == parsepc # "diverged"

\* the index of the end-of-input token, the last element of the tokens
EofIndex == Len(Toks) - 1

\* C28: while the parser runs over a token sequence whose only end-of-input
\* token is its last element, the cursor stays within 0 .. index of the
\* end-of-input token and never decreases from one step to the next, and no
\* read goes past the end of the token sequence.
C28_CursorWithinTokens ==
    /\ [](parsepc # "idle" =>
             /\ 0 <= parser.crnt
             /\ parser.crnt <= EofIndex
             /\ parsepc # "panic")
    /\ [][parser'.crnt >= parser.crnt]_vars

\* the part of the source before offset c
Before(c) == SubSeq(Src, 1, IF c < Len(Src) THEN c ELSE Len(Src))

\* C29: every newline character the scan has passed has incremented the line
\* counter exactly once, wherever it occurs, and every token is emitted with
\* line = 1 + the number of newline characters of the source before the
\* token's end offset.
C29_LineCountsEveryNewline ==
    /\ [](lexpc \in {"scan", "done"} =>
             lexer.line = 1 + NewlineCount(Before(lexer.crnt)))
    /\ [][Len(lexer'.tokens) > Len(lexer.tokens) =>
             LastToken(lexer'.tokens).line = 1 + NewlineCount(Before(lexer'.crnt))]_vars

====
